---------------------------- MODULE Spec2Model ----------------------------
(***************************************************************************)
(* McApp gateway: message router, outbound suppression, command engine,    *)
(* ping-test tracker and message store, modelled as state machines.        *)
(*                                                                         *)
(* The module holds several specifications over one set of variables; each *)
(* specification exercises one subsystem and leaves the variables of the   *)
(* others at their initial value.                                          *)
(*   SpecRouter   MessageRouter.subscribe / publish        (main.py)       *)
(***************************************************************************)
EXTENDS Integers, Sequences, FiniteSets, TLC

(***************************************************************************)
(* Bounds of the model                                                     *)
(***************************************************************************)
\* publish calls each publishing task may make
MaxPublishes == 2

\* argument tokens after the command word of a message text
MaxArgs == 2

\* the clock reading (seconds) at which the routed message is handled
RoutingTime == 100

\* clock steps taken while commands are delivered
MaxTicks == 2

\* clock steps taken while responses fail
MaxAbuseTicks == 1

\* signal samples accepted in all
MaxSamples == 4

\* _flush_all_accumulators() calls made in all
MaxFlushAll == 1

\* runs of the update runner
MaxRuns == 2

\* the latest deployed_at of the slot layout the first run finds
MaxDeployedAt == 2

\* unexpected disconnects of the BLE link
MaxDrops == 2

\* connect and disconnect requests of the user
MaxRequests == 3

\* times the radio goes out of reach
MaxRadioChanges == 2

\* seconds on the monotonic clock
MaxUptime == 20

\* seconds the process serves before it is stopped
MaxServing == 1

\* signals delivered to the process
MaxSignals == 2

\* broadcast_message() calls
MaxBroadcasts == 3

\* keepalive pings sent to the client
MaxPings == 1

\* registers in cached_ble_registers
MaxRegisters == 2

\* parts of a response text
MaxParts == 4

\* crashes of the process during initialize()
MaxCrashes == 2

\* beacons of the station that are stored
MaxBeacons == 3

\* the newest beacon timestamp
MaxBeaconTime == 3

\* the locations a station reports
MaxLocation == 3

\* _request() calls made
MaxCalls == 2

\* beacon tasks created for the group
MaxBeaconTasks == 3

\* !topic commands for the group
MaxTopicCommands == 3

\* beacons published for the group
MaxBeaconsSent == 2

\* notifications the radio sends to the BLE service
MaxNotifications == 3

\* events published on the update runner's bus
MaxEvents == 3

\* messages of the conversation that is paged
MaxConversation == 4

\* the newest millisecond timestamp of the conversation
MaxPageTime == 3

\* the page size the client asks for (20 by default)
PageLimit == 2

\* deliveries handed to the command handler in all
MaxDeliveries == 4

\* store_message() calls made in all
MaxStores == 3

\* the largest repeat count of a ping test (the command accepts 1..5)
MaxRepeat == 3

\* echoes and ACKs the radio delivers during one ping test
MaxEchoes == 3

MaxAcks == 3

\* the last second at which the ping test's clock still moves on
MaxPingClock == 60

\* the clock of a ping test that is watched up to the end of its monitor
MaxTestClock == 350

\* echoes and ACKs the radio delivers during such a test
MaxLateEchoes == 1

MaxLateAcks == 1

(***************************************************************************)
(* Generic helpers                                                         *)
(***************************************************************************)
Range(s) == {s[i] : i \in 1..Len(s)}

IsPrefix(s, t) == Len(s) <= Len(t) /\ \A i \in 1..Len(s) : s[i] = t[i]

(***************************************************************************)
(* Text: a string is a sequence of one-character strings; a message text   *)
(* is the sequence of its whitespace-separated tokens (what str.split()    *)
(* returns).                                                               *)
(***************************************************************************)
UpperLetters == <<"A","B","C","D","E","F","G","H","I","J","K","L","M",
                  "N","O","P","Q","R","S","T","U","V","W","X","Y","Z">>

LowerLetters == <<"a","b","c","d","e","f","g","h","i","j","k","l","m",
                  "n","o","p","q","r","s","t","u","v","w","x","y","z">>

DigitChars == <<"0","1","2","3","4","5","6","7","8","9">>

IndexOf(seq, c) == CHOOSE i \in 1..Len(seq) : seq[i] = c

UpperSet == Range(UpperLetters)

LowerSet == Range(LowerLetters)

DigitSet == Range(DigitChars)

\* the upper-case form of each lower-case letter, the value of each digit
UpperOf == [c \in LowerSet |-> UpperLetters[IndexOf(LowerLetters, c)]]

DigitValue == [c \in DigitSet |-> IndexOf(DigitChars, c) - 1]

IsLetter(c) == c \in UpperSet

IsDigit(c) == c \in DigitSet

\* str.upper() on one character and on a string
upper_char(c) == IF c \in LowerSet THEN UpperOf[c] ELSE c

upper(s) == [i \in 1..Len(s) |-> upper_char(s[i])]

\* str.strip()
strip(s) ==
    LET keep == {i \in 1..Len(s) : s[i] # " "}
    IN  IF keep = {} THEN <<>>
        ELSE SubSeq(s, CHOOSE i \in keep : \A j \in keep : i <= j,
                       CHOOSE i \in keep : \A j \in keep : i >= j)

\* s.split(',')[0]
before_comma(s) ==
    LET commas == {i \in 1..Len(s) : s[i] = ","}
    IN  IF commas = {} THEN s
        ELSE SubSeq(s, 1, (CHOOSE i \in commas : \A j \in commas : i <= j) - 1)

StartsWith(s, p) == Len(s) >= Len(p) /\ SubSeq(s, 1, Len(p)) = p

\* str.isdigit() and int(str)
isdigit(s) == Len(s) > 0 /\ \A i \in 1..Len(s) : IsDigit(s[i])

RECURSIVE to_int(_)
to_int(s) ==
    IF s = <<>> THEN 0
    ELSE 10 * to_int(SubSeq(s, 1, Len(s) - 1)) + DigitValue[s[Len(s)]]

\* the optional group (-\d{1,2})? followed by $
SsidSuffix(r) ==
    \/ r = <<>>
    \/ /\ Len(r) \in 2..3
       /\ r[1] = "-"
       /\ \A i \in 2..Len(r) : IsDigit(r[i])

\* [A-Z0-9]{lo,hi}(-\d{1,2})?$ matched from the start of s
AlnumThenSsid(s, lo, hi) ==
    \E n \in lo..hi :
        /\ n <= Len(s)
        /\ \A i \in 1..n : IsLetter(s[i]) \/ IsDigit(s[i])
        /\ SsidSuffix(SubSeq(s, n + 1, Len(s)))

\* re.match(r'^(?=.*[A-Z])(?=.*[0-9])[A-Z0-9]{3,8}(-\d{1,2})?$', s)
matches_callsign_target(s) ==
    /\ \E i \in 1..Len(s) : IsLetter(s[i])
    /\ \E i \in 1..Len(s) : IsDigit(s[i])
    /\ AlnumThenSsid(s, 3, 8)

\* a message text starts with '!'
is_command(msg) == Len(msg) > 0 /\ Len(msg[1]) > 0 /\ msg[1][1] = "!"

\* s.split('-')[0]
before_dash(s) ==
    LET dashes == {i \in 1..Len(s) : s[i] = "-"}
    IN  IF dashes = {} THEN s
        ELSE SubSeq(s, 1, (CHOOSE i \in dashes : \A j \in dashes : i <= j) - 1)

Contains(s, c) == \E i \in 1..Len(s) : s[i] = c

(***************************************************************************)
(* Configuration and vocabulary                                            *)
(***************************************************************************)
\* cfg.call_sign, upper-cased by set_callsign()
MyCallsign == <<"D","K","5","E","N","-","1">>

OtherCallsign == <<"O","E","5","H","W","N","-","1","2">>

\* the operator's base callsign under another SSID (an admin source)
AdminCallsign == <<"D","K","5","E","N","-","7">>

Tok_TARGET == <<"T","A","R","G","E","T",":">>

Tok_LOCAL == <<"L","O","C","A","L">>

Tok_GROUP == <<"G","R","O","U","P">>

Tok_KB == <<"K","B">>

Tok_TOPIC == <<"T","O","P","I","C">>

Tok_TEST == <<"T","E","S","T">>

Tok_ALL == <<"A","L","L">>

Tok_STAR == <<"*">>

(***************************************************************************)
(* MessageValidator (main.py)                                              *)
(***************************************************************************)
\* normalize_message_data(): src/dst trimmed and upper-cased (src cut at the
\* first comma), the text upper-cased iff it starts with '!'
normalize_message_data(d) ==
    LET src_raw == strip(d.src)
        dst_raw == strip(d.dst)
    IN  [d EXCEPT
            !.src = IF Contains(src_raw, ",") THEN upper(before_comma(src_raw))
                    ELSE upper(src_raw),
            !.dst = upper(dst_raw),
            !.msg = IF is_command(d.msg)
                    THEN [i \in 1..Len(d.msg) |-> upper(d.msg[i])]
                    ELSE d.msg]

\* the tokens after the command word
Args(parts) == SubSeq(parts, 2, Len(parts))

\* Priority 1: the first TARGET:X argument decides
explicit_target(args) ==
    LET hits == {i \in 1..Len(args) : StartsWith(args[i], Tok_TARGET)}
        first == CHOOSE i \in hits : \A j \in hits : i <= j
        potential == SubSeq(args[first], Len(Tok_TARGET) + 1, Len(args[first]))
    IN  IF potential \in {Tok_LOCAL, <<>>} THEN <<>>
        ELSE IF matches_callsign_target(potential) THEN potential
        ELSE <<>>

\* Priority 2: right-to-left, skipping key:value tokens, the first callsign
positional_target(args) ==
    LET hits == {i \in 1..Len(args) :
                    ~Contains(args[i], ":") /\ matches_callsign_target(args[i])}
    IN  IF hits = {} THEN <<>>
        ELSE args[CHOOSE i \in hits : \A j \in hits : i >= j]

\* extract_target_callsign(): <<>> stands for None
extract_target_callsign(msg) ==
    IF ~is_command(msg) THEN <<>>
    ELSE LET parts == [i \in 1..Len(msg) |-> upper(msg[i])]
             command == SubSeq(parts[1], 2, Len(parts[1]))
         IN  IF Len(parts) < 2 THEN <<>>
             ELSE IF command \in {Tok_GROUP, Tok_KB, Tok_TOPIC} THEN <<>>
             ELSE IF \E i \in 1..Len(Args(parts)) : StartsWith(Args(parts)[i], Tok_TARGET)
                  THEN explicit_target(Args(parts))
             ELSE positional_target(Args(parts))

\* is_group(): 'TEST' or a number 1..99999
is_group(dst) ==
    IF dst = <<>> THEN FALSE
    ELSE IF upper(dst) = Tok_TEST THEN TRUE
    ELSE IF isdigit(dst) THEN to_int(dst) >= 1 /\ to_int(dst) <= 99999
    ELSE FALSE

\* is_valid_destination(): not '*', 'ALL' or empty, and a callsign or a group
is_valid_destination(dst) ==
    IF dst = <<>> THEN FALSE
    ELSE IF dst \in {Tok_STAR, Tok_ALL, <<>>} THEN FALSE
    ELSE IF AlnumThenSsid(dst, 2, 8) THEN TRUE
    ELSE is_group(dst)

\* should_suppress_outbound(): the suppression oracle
should_suppress_outbound_no_self_rule(d) ==
    IF d.src # MyCallsign THEN FALSE
    ELSE IF ~is_command(d.msg) THEN FALSE
    ELSE IF ~is_valid_destination(d.dst) THEN TRUE
    ELSE extract_target_callsign(d.msg) = <<>>

should_suppress_outbound_any_command(d) ==
    IF d.src # MyCallsign THEN FALSE
    ELSE is_command(d.msg)

should_suppress_outbound_self_first(d) ==
    IF d.src # MyCallsign THEN FALSE
    ELSE IF ~is_command(d.msg) THEN FALSE
    ELSE IF ~is_valid_destination(d.dst) THEN TRUE
    ELSE IF d.dst = MyCallsign THEN TRUE
    ELSE IF extract_target_callsign(d.msg) = <<>> THEN TRUE
    ELSE extract_target_callsign(d.msg) = MyCallsign

should_suppress_outbound(d) ==
    IF d.src # MyCallsign THEN FALSE
    ELSE IF ~is_command(d.msg) THEN FALSE
    ELSE IF ~is_valid_destination(d.dst) THEN TRUE
    ELSE IF extract_target_callsign(d.msg) = <<>> THEN TRUE
    ELSE IF extract_target_callsign(d.msg) = MyCallsign THEN TRUE
    ELSE FALSE

(***************************************************************************)
(* MessageRouter: outbound handlers (main.py)                              *)
(***************************************************************************)
\* "Add our callsign if missing"
with_my_callsign(d) == IF d.src = <<>> THEN [d EXCEPT !.src = MyCallsign] ELSE d

\* _is_message_to_self()
is_message_to_self(d) == d.dst = MyCallsign

\* _create_synthetic_message(): the id is the current second rendered as
\* eight hex digits (an injective rendering, kept here as the number)
create_synthetic_message(d, protocol_type, t) ==
    [src |-> d.src, dst |-> d.dst, msg |-> d.msg, msg_id |-> t,
     type |-> "msg", src_type |-> protocol_type, timestamp |-> t * 1000]

\* What one run of an outbound handler does: the normalized message, the
\* oracle's verdict, the records routed to the command handler, the
\* messages handed to a transport and the errors published to the clients.
Outcome(norm, suppress, toCmd, sent, errors) ==
    [norm |-> norm, suppress |-> suppress, toCmd |-> toCmd, sent |-> sent,
     errors |-> errors]

\* _udp_message_handler()
udp_message_handler_no_return(data, protos, t) ==
    LET norm == with_my_callsign(normalize_message_data(data))
    IN  Outcome(norm, should_suppress_outbound(norm),
                IF should_suppress_outbound(norm)
                THEN <<create_synthetic_message(norm, "udp", t)>> ELSE <<>>,
                IF "udp" \in protos THEN <<[via |-> "udp", data |-> norm]>> ELSE <<>>,
                IF "udp" \in protos THEN <<>> ELSE <<"UDP handler not available">>)

udp_message_handler(data, protos, t) ==
    LET norm == with_my_callsign(normalize_message_data(data))
    IN  IF should_suppress_outbound(norm)
        THEN Outcome(norm, TRUE, <<create_synthetic_message(norm, "udp", t)>>, <<>>, <<>>)
        ELSE IF is_message_to_self(norm)
        THEN Outcome(norm, FALSE, <<create_synthetic_message(norm, "udp", t)>>, <<>>, <<>>)
        ELSE IF "udp" \in protos
        THEN Outcome(norm, FALSE, <<>>, <<[via |-> "udp", data |-> norm]>>, <<>>)
        ELSE Outcome(norm, FALSE, <<>>, <<>>, <<"UDP handler not available">>)

\* _ble_message_handler(); _handle_outgoing_message() builds the synthetic
\* record with the default protocol type 'udp' on this path too
ble_message_handler(data, protos, t) ==
    LET norm == with_my_callsign(normalize_message_data(data))
    IN  IF should_suppress_outbound(norm)
        THEN Outcome(norm, TRUE, <<create_synthetic_message(norm, "ble", t)>>, <<>>, <<>>)
        ELSE IF is_message_to_self(norm)
        THEN Outcome(norm, FALSE, <<create_synthetic_message(norm, "udp", t)>>, <<>>, <<>>)
        ELSE IF "ble_client" \in protos
        THEN Outcome(norm, FALSE, <<>>, <<[via |-> "ble", data |-> norm]>>, <<>>)
        ELSE Outcome(norm, FALSE, <<>>, <<>>, <<>>)

(***************************************************************************)
(* RoutingMixin: reception decision (commands/routing.py)                  *)
(***************************************************************************)
\* normalize_command_data()
normalize_command_data(d) ==
    [src |-> IF Contains(d.src, ",") THEN upper(strip(before_comma(d.src)))
             ELSE upper(strip(d.src)),
     dst |-> upper(strip(d.dst)),
     msg |-> IF is_command(d.msg)
             THEN [i \in 1..Len(d.msg) |-> upper(d.msg[i])]
             ELSE d.msg]

\* RoutingMixin.extract_target_callsign(): the same procedure as the
\* validator's, with the pattern taken from CALLSIGN_TARGET_PATTERN
routing_extract_target_callsign(msg) ==
    IF ~is_command(msg) THEN <<>>
    ELSE LET parts == [i \in 1..Len(msg) |-> upper(msg[i])]
             command == SubSeq(parts[1], 2, Len(parts[1]))
         IN  IF Len(parts) < 2 THEN <<>>
             ELSE IF command \in {Tok_GROUP, Tok_KB, Tok_TOPIC} THEN <<>>
             ELSE IF \E i \in 1..Len(Args(parts)) : StartsWith(Args(parts)[i], Tok_TARGET)
                  THEN explicit_target(Args(parts))
             ELSE positional_target(Args(parts))

\* _is_admin(): the base callsign equals the operator's base callsign
is_admin(callsign) ==
    IF callsign = <<>> THEN FALSE
    ELSE upper(before_dash(callsign)) = upper(before_dash(MyCallsign))

Decision(execute, target_type) == [execute |-> execute, target_type |-> target_type]

\* _should_execute_command_old(): the earlier table, which wants the target
\* to be my callsign for every incoming command
should_execute_command_old(src0, dst0, msg0, group_on) ==
    LET src == upper(src0)
        dst == upper(dst0)
        msg == [i \in 1..Len(msg0) |-> upper(msg0[i])]
        target == routing_extract_target_callsign(msg)
    IN  IF dst \in {Tok_STAR, Tok_ALL, <<>>} THEN Decision(FALSE, "none")
        ELSE IF src = MyCallsign
        THEN IF target = <<>> \/ target = MyCallsign
             THEN IF dst = MyCallsign THEN Decision(TRUE, "direct")
                  ELSE IF is_group(dst) THEN Decision(TRUE, "group")
                  ELSE Decision(TRUE, "direct")
             ELSE Decision(FALSE, "none")
        ELSE IF target # MyCallsign THEN Decision(FALSE, "none")
        ELSE IF dst = MyCallsign THEN Decision(TRUE, "direct")
        ELSE IF is_group(dst)
        THEN IF group_on \/ is_admin(src) THEN Decision(TRUE, "group")
             ELSE Decision(FALSE, "none")
        ELSE Decision(FALSE, "none")

\* _should_execute_command()
should_execute_command(src0, dst0, msg0, group_on) ==
    LET src == upper(src0)
        dst == upper(dst0)
        msg == [i \in 1..Len(msg0) |-> upper(msg0[i])]
        target == routing_extract_target_callsign(msg)
    IN  IF dst \in {Tok_STAR, Tok_ALL, <<>>}
        THEN IF src = MyCallsign THEN Decision(TRUE, "group")
             ELSE Decision(FALSE, "none")
        ELSE IF src = MyCallsign
        THEN IF target = <<>> \/ target = MyCallsign
             THEN IF dst = MyCallsign THEN Decision(TRUE, "direct")
                  ELSE IF is_group(dst) THEN Decision(TRUE, "group")
                  ELSE Decision(TRUE, "direct")
             ELSE Decision(FALSE, "none")
        ELSE IF dst = MyCallsign
        THEN IF target = <<>> \/ target = MyCallsign THEN Decision(TRUE, "direct")
             ELSE Decision(FALSE, "none")
        ELSE IF is_group(dst)
        THEN IF target # MyCallsign THEN Decision(FALSE, "none")
             ELSE IF group_on \/ is_admin(src) THEN Decision(TRUE, "group")
             ELSE Decision(FALSE, "none")
        ELSE Decision(FALSE, "none")

\* _message_handler(), lines 67-76: whom the response goes to
response_target(src, dst, target_type) ==
    IF target_type = "direct"
    THEN IF src = MyCallsign THEN dst ELSE src
    ELSE dst

VARIABLES
    subscribers,    \* MessageRouter._subscribers: topic -> list of handlers
    regpc,          \* number of startup registrations already performed
    pub,            \* per publishing task: the publish() call in progress
    protocols,      \* MessageRouter._protocols: the registered transports
    group_responses_enabled,    \* CommandHandler.group_responses_enabled
    ob,             \* the message travelling through the router
    now,            \* time.time(), in seconds
    ticks,          \* number of clock steps taken
    processed_msg_ids,  \* DedupMixin.processed_msg_ids: msg_id -> timestamp
    command_throttle,   \* DedupMixin.command_throttle: hash -> entry
    handler,        \* per receiving task: its _message_handler() call
    outcomes,       \* what became of each delivery
    deliveries,     \* number of deliveries handed to _message_handler()
    failed_attempts,    \* DedupMixin.failed_attempts: src -> timestamps
    blocked_users,      \* DedupMixin.blocked_users: src -> block timestamp
    block_notifications_sent,   \* DedupMixin.block_notifications_sent
    messages,       \* the rows of table messages, in insertion order
    storing,        \* per receiving task: its store_message() call
    store_calls,    \* number of store_message() calls made
    ping_tests,     \* CTCPingMixin.ping_tests: the test ids present
    test_summary,   \* the test's record, which its tasks keep a reference to
    active_pings,   \* CTCPingMixin.active_pings: echo id -> ping info
    starter,        \* the _start_ping_test() task
    timeout_tasks,  \* the sleeping _ping_timeout_task() tasks
    ack_tasks,      \* _handle_ack_message() calls suspended in their send
    complete_task,  \* the _complete_test_with_cleanup() task
    completion_event,   \* the test's key is in _completion_events
    monitor,        \* the _monitor_test_completion() task
    emitted,        \* the messages sent to the requester, by kind
    radio,          \* the pings on the air and the packets received back
    bucket_accumulators,    \* SQLiteStorage._bucket_accumulators: key -> samples
    signal_buckets, \* table signal_buckets: (callsign, bucket_ts) -> count
    accepted,       \* number of samples accepted into signal_log
    flushing,       \* store_message(): the completed buckets being written
    flush_all,      \* _flush_all_accumulators(): the rows being written
    current,        \* the slot the symlink current points to
    slot_meta,      \* meta/slot-N.json of each slot
    etc_files,      \* the configuration files under /etc
    etc_archive,    \* meta/slot-N.etc.tar.gz of each slot
    runner,         \* the update runner process: its position and its locals
    link,           \* BLE service: the adapter's connection to the radio
    bus,            \* ble_adapter.bus: the bus handle, 0 for None
    radio_up,       \* the radio is reachable
    user_disconnected,  \* _user_disconnected
    last_connected_mac, \* _last_connected_mac
    reconnect_task, \* _reconnect_task: the _auto_reconnect() task
    connect_calls,       \* the connect() calls of the reconnect task, in order
    ble_events,     \* numbers of drops, user requests, radio outages, buses
    monotonic,      \* time.monotonic(), in seconds
    proc,           \* main(): its position, stop_event and _first_signal_time
    signals,        \* the signals handled, with what handle_shutdown() did
    attempted,      \* the shutdown steps attempted, with their outcomes
    sse_client,     \* the SSEClient of a /events request and its generator
    sse_clients,    \* SSEManager.clients: the client is registered
    received,       \* the frames the generator has yielded to the client
    broadcasts,     \* number of broadcast_message() calls made
    responder,      \* one send_response() call and what it published
    migration,      \* the database file and the process running initialize()
    station,        \* the station_positions row of one callsign and its beacons
    request,        \* BLEClientRemote._request(): the call in progress
    beacon,         \* active_topics, topic_tasks and the beacon tasks of a group
    notify,         \* the BLE service's notifications and its SSE streams
    paging,         \* a conversation and the pages fetched of it
    event_bus       \* the update runner's EventBus and its subscribers

routerVars == <<subscribers, regpc, pub>>

routingVars == <<protocols, group_responses_enabled, ob>>

abuseVars == <<failed_attempts, blocked_users, block_notifications_sent>>

cmdVars == <<now, ticks, processed_msg_ids, command_throttle, handler, outcomes,
             deliveries, abuseVars>>

storeVars == <<messages, storing, store_calls>>

pingVars == <<ping_tests, test_summary, active_pings, starter, timeout_tasks,
              ack_tasks, complete_task, completion_event, monitor, emitted, radio>>

gatewayVars == <<routerVars, routingVars, cmdVars, storeVars, pingVars>>

signalVars == <<bucket_accumulators, signal_buckets, accepted, flushing, flush_all>>

updateVars == <<current, slot_meta, etc_files, etc_archive, runner>>

\* the variables of the subsystems around the gateway core
bleVars == <<link, bus, radio_up, user_disconnected, last_connected_mac,
             reconnect_task, connect_calls, ble_events>>

shutdownVars == <<monotonic, proc, signals, attempted>>

sseVars == <<sse_client, sse_clients, received, broadcasts>>

\* the subsystems of one variable each
lastVars == <<beacon, notify, paging, event_bus>>

laterVars == <<responder, migration, station, request, lastVars>>

serviceVars == <<signalVars, updateVars, bleVars, shutdownVars, sseVars, laterVars>>

\* everything but the signal buckets, and everything but the update runner
notSignalVars == <<gatewayVars, updateVars, bleVars, shutdownVars, sseVars, laterVars>>

notUpdateVars == <<gatewayVars, signalVars, bleVars, shutdownVars, sseVars, laterVars>>

notBleVars == <<gatewayVars, signalVars, updateVars, shutdownVars, sseVars, laterVars>>

notShutdownVars == <<gatewayVars, signalVars, updateVars, bleVars, sseVars, laterVars>>

notSseVars == <<gatewayVars, signalVars, updateVars, bleVars, shutdownVars, laterVars>>

coreVars == <<gatewayVars, signalVars, updateVars, bleVars, shutdownVars, sseVars>>

notResponderVars == <<coreVars, migration, station, request, lastVars>>

notMigrationVars == <<coreVars, responder, station, request, lastVars>>

notStationVars == <<coreVars, responder, migration, request, lastVars>>

notRequestVars == <<coreVars, responder, migration, station, lastVars>>

earlierVars == <<coreVars, responder, migration, station, request>>

notBeaconVars == <<earlierVars, notify, paging, event_bus>>

notNotifyVars == <<earlierVars, beacon, paging, event_bus>>

notPagingVars == <<earlierVars, beacon, notify, event_bus>>

notEventBusVars == <<earlierVars, beacon, notify, paging>>

vars == <<subscribers, regpc, pub, protocols, group_responses_enabled, ob,
          now, ticks, processed_msg_ids, command_throttle, handler, outcomes,
          deliveries, failed_attempts, blocked_users, block_notifications_sent,
          messages, storing, store_calls,
          ping_tests, test_summary, active_pings, starter, timeout_tasks,
          ack_tasks, complete_task, completion_event, monitor, emitted, radio,
          serviceVars>>

(***************************************************************************)
(* MessageRouter: subscribe / publish                                      *)
(***************************************************************************)
Topics == {"mesh_message", "ble_status"}

\* the tasks that call publish(): the UDP receive loop and the BLE
\* notification stream
Publishers == {"udp", "ble"}

\* MessageRouter.__init__ with a storage handler: the subscriptions made by
\* the constructor on the topics modelled here
InitSubscribers ==
    [t \in Topics |-> IF t = "mesh_message" THEN <<"_storage_handler">> ELSE <<>>]

\* the subscribe() calls of main() after construction, in program order
Registrations ==
    << [topic |-> "ble_status",   handler |-> "_clear_ble_cache_on_disconnect"],
       [topic |-> "mesh_message", handler |-> "_message_handler"],
       [topic |-> "mesh_message", handler |-> "_broadcast_handler"],
       [topic |-> "ble_status",   handler |-> "_broadcast_handler"] >>

IdlePub == [pc |-> "idle", topic |-> "mesh_message", idx |-> 1,
            running |-> {}, delivered |-> <<>>, raised |-> {}, calls |-> 0]

\* subscribe(): self._subscribers[message_type].append(handler_func)
subscribe(subs, t, h) == [subs EXCEPT ![t] = Append(@, h)]

Subscribe ==
    /\ regpc < Len(Registrations)
    /\ LET r == Registrations[regpc + 1]
       IN  subscribers' = subscribe(subscribers, r.topic, r.handler)
    /\ regpc' = regpc + 1
    /\ UNCHANGED <<serviceVars, pub, routingVars, cmdVars, storeVars, pingVars>>

\* publish() entered: the for loop starts at the head of the list
PublishStart(p, t) ==
    /\ pub[p].pc \in {"idle", "returned"}
    /\ pub[p].calls < MaxPublishes
    /\ pub' = [pub EXCEPT ![p] = [pc |-> "loop", topic |-> t, idx |-> 1,
                                  running |-> {}, delivered |-> <<>>,
                                  raised |-> {}, calls |-> pub[p].calls + 1]]
    /\ UNCHANGED <<serviceVars, subscribers, regpc, routingVars, cmdVars, storeVars, pingVars>>

\* `await handler(routed_message)`: the loop calls the next handler only
\* when no handler of this publish is still running
publish_may_call_mutant(q) == q.pc = "loop"

publish_may_call(q) == q.pc = "loop" /\ q.running = {}

HandlerCall(p) ==
    /\ publish_may_call(pub[p])
    /\ pub[p].idx <= Len(subscribers[pub[p].topic])
    /\ pub' = [pub EXCEPT ![p].running = @ \cup {pub[p].idx},
                          ![p].delivered = Append(@, subscribers[pub[p].topic][pub[p].idx]),
                          ![p].idx = @ + 1]
    /\ UNCHANGED <<serviceVars, subscribers, regpc, routingVars, cmdVars, storeVars, pingVars>>

\* the awaited handler returns normally
HandlerReturn(p, i) ==
    /\ pub[p].pc = "loop"
    /\ i \in pub[p].running
    /\ pub' = [pub EXCEPT ![p].running = @ \ {i}]
    /\ UNCHANGED <<serviceVars, subscribers, regpc, routingVars, cmdVars, storeVars, pingVars>>

\* the awaited handler raises an Exception: `except Exception` logs it and
\* the for loop goes on with the next handler
publish_on_raise_mutant(q, i) ==
    [q EXCEPT !.running = {}, !.raised = @ \cup {i}, !.pc = "returned"]

publish_on_raise(q, i) ==
    [q EXCEPT !.running = @ \ {i}, !.raised = @ \cup {i}]

HandlerRaise(p, i) ==
    /\ pub[p].pc = "loop"
    /\ i \in pub[p].running
    /\ pub' = [pub EXCEPT ![p] = publish_on_raise(pub[p], i)]
    /\ UNCHANGED <<serviceVars, subscribers, regpc, routingVars, cmdVars, storeVars, pingVars>>

\* the list iterator is exhausted: publish() returns
PublishReturn(p) ==
    /\ publish_may_call(pub[p])
    /\ pub[p].idx > Len(subscribers[pub[p].topic])
    /\ pub' = [pub EXCEPT ![p].pc = "returned"]
    /\ UNCHANGED <<serviceVars, subscribers, regpc, routingVars, cmdVars, storeVars, pingVars>>

RouterIdle ==
    /\ subscribers = InitSubscribers
    /\ regpc = 0
    /\ pub = [p \in Publishers |-> IdlePub]

RouterNext ==
    \/ Subscribe
    \/ \E p \in Publishers, t \in Topics : PublishStart(p, t)
    \/ \E p \in Publishers : HandlerCall(p)
    \/ \E p \in Publishers : \E i \in pub[p].running : HandlerReturn(p, i)
    \/ \E p \in Publishers : \E i \in pub[p].running : HandlerRaise(p, i)
    \/ \E p \in Publishers : PublishReturn(p)

(***************************************************************************)
(* Outbound routing and reception of one message                           *)
(***************************************************************************)
NoData == [src |-> <<>>, dst |-> <<>>, msg |-> <<>>]

NoOutcome == Outcome(NoData, FALSE, <<>>, <<>>, <<>>)

IdleOb == [pc |-> "idle", topic |-> "none", data |-> NoData, out |-> NoOutcome,
           inbox |-> <<>>, decision |-> Decision(FALSE, "none"), reply_to |-> <<>>]

\* sources as a client or the radio writes them
InSrcs ==
    { <<>>,
      <<"d","k","5","e","n","-","1"," ">>,
      OtherCallsign \o <<",">> \o AdminCallsign,
      AdminCallsign }

InDsts ==
    { MyCallsign, OtherCallsign, <<"2","0">>, <<"t","e","s","t">>,
      Tok_STAR, Tok_ALL, <<>>, <<"A">> }

CommandWords == { <<"!","w","x">>, <<"!","T","I","M","E">>, <<"!">> \o Tok_GROUP, <<"H","I">> }

ArgTokens ==
    { MyCallsign,
      OtherCallsign,
      Tok_TARGET \o Tok_LOCAL,
      Tok_TARGET \o OtherCallsign,
      <<"C","A","L","L",":">> \o OtherCallsign,
      <<"O","N">> }

ArgLists == UNION {[1..n -> ArgTokens] : n \in 0..MaxArgs}

InMsgs == {<<w>> \o a : w \in CommandWords, a \in ArgLists}

\* POST /api/send: type BLE publishes {msg, dst} on ble_message, everything
\* else publishes {type, dst, msg[, src]} on udp_message
UiSend(topic, src, dst, msg) ==
    /\ ob.pc = "idle"
    /\ topic = "ble_message" => src = <<>>
    /\ ob' = [ob EXCEPT !.pc = "published", !.topic = topic,
                        !.data = [src |-> src, dst |-> dst, msg |-> msg]]
    /\ UNCHANGED <<serviceVars, routerVars, protocols, group_responses_enabled, cmdVars, storeVars, pingVars>>

\* publish() calls the topic's only subscriber, the router's own handler
RouteOutbound ==
    /\ ob.pc = "published"
    /\ LET out == IF ob.topic = "udp_message"
                  THEN udp_message_handler(ob.data, protocols, RoutingTime)
                  ELSE ble_message_handler(ob.data, protocols, RoutingTime)
       IN  ob' = [ob EXCEPT !.pc = "routed", !.out = out, !.inbox = out.toCmd]
    /\ UNCHANGED <<serviceVars, routerVars, protocols, group_responses_enabled, cmdVars, storeVars, pingVars>>

\* a decoded packet is published on mesh_message / ble_notification and
\* reaches the command handler
MeshReceive(src, dst, msg) ==
    /\ ob.pc = "idle"
    /\ ob' = [ob EXCEPT !.pc = "routed", !.topic = "mesh_message",
                        !.data = [src |-> src, dst |-> dst, msg |-> msg],
                        !.inbox = <<[src |-> src, dst |-> dst, msg |-> msg]>>]
    /\ UNCHANGED <<serviceVars, routerVars, protocols, group_responses_enabled, cmdVars, storeVars, pingVars>>

\* the tail the radio gives the text it has accepted: '{' and the three
\* digits of the message id
EchoTails == { <<"{","0","3","4">> }

\* the text with a tail on its last word
with_tail(msg, tail) == [msg EXCEPT ![Len(msg)] = @ \o tail]

is_echo_message_never(msg) == FALSE

\* _is_echo_message(): the text ends with '{' and exactly three digits
is_echo_message(msg) ==
    /\ msg # <<>>
    /\ LET w == msg[Len(msg)]
       IN  /\ Len(w) >= 4
           /\ w[Len(w) - 3] = "{"
           /\ \A i \in (Len(w) - 2)..Len(w) : IsDigit(w[i])

\* the radio has accepted a message handed to a transport, and the packet
\* with its tail comes back on mesh_message
RadioEcho(tail) ==
    /\ ob.pc = "routed"
    /\ ob.out.sent # <<>>
    /\ ob.inbox = <<>>
    /\ ob.out.norm.msg # <<>>
    /\ ob' = [ob EXCEPT !.topic = "mesh_message",
                        !.inbox = <<[src |-> ob.out.norm.src, dst |-> ob.out.norm.dst,
                                     msg |-> with_tail(ob.out.norm.msg, tail)]>>]
    /\ UNCHANGED <<serviceVars, routerVars, protocols, group_responses_enabled, cmdVars, storeVars, pingVars>>

\* _message_handler() up to the reception decision (lines 16-76): an echo
\* goes to _handle_echo_message() and is not decided on
CommandHandlerReceive ==
    /\ ob.pc = "routed"
    /\ ob.inbox # <<>>
    /\ LET d == ob.inbox[1]
           n == normalize_command_data(d)
           dec == IF is_echo_message(d.msg) THEN Decision(FALSE, "none")
                  ELSE IF ~is_command(d.msg) THEN Decision(FALSE, "none")
                  ELSE should_execute_command(n.src, n.dst, n.msg, group_responses_enabled)
       IN  ob' = [ob EXCEPT !.pc = "decided", !.decision = dec,
                            !.reply_to = IF dec.execute
                                         THEN response_target(n.src, n.dst, dec.target_type)
                                         ELSE <<>>]
    /\ UNCHANGED <<serviceVars, routerVars, protocols, group_responses_enabled, cmdVars, storeVars, pingVars>>

\* handle_group_control(): an admin's !group on|off
SetGroupResponses(state) ==
    /\ ob.pc = "idle"
    /\ group_responses_enabled # state
    /\ group_responses_enabled' = state
    /\ UNCHANGED <<serviceVars, routerVars, protocols, ob, cmdVars, storeVars, pingVars>>

RoutingIdle ==
    /\ group_responses_enabled = FALSE
    /\ ob = IdleOb

\* the inputs are enumerated only where a message can enter
RoutingNext ==
    \/ /\ ob.pc = "idle"
       /\ \E t \in {"udp_message", "ble_message"}, src \in InSrcs, dst \in InDsts,
             msg \in InMsgs : UiSend(t, src, dst, msg)
    \/ RouteOutbound
    \/ /\ ob.pc = "idle"
       /\ \E src \in InSrcs \ {<<>>}, dst \in InDsts, msg \in InMsgs :
             MeshReceive(src, dst, msg)
    \/ CommandHandlerReceive
    \/ \E state \in BOOLEAN : SetGroupResponses(state)

\* a message of a client is routed, and the radio echoes what was sent
EchoNext ==
    \/ /\ ob.pc = "idle"
       /\ \E t \in {"udp_message", "ble_message"}, src \in InSrcs, dst \in InDsts,
             msg \in InMsgs : UiSend(t, src, dst, msg)
    \/ RouteOutbound
    \/ \E tail \in EchoTails \cup {<<>>} : RadioEcho(tail)
    \/ CommandHandlerReceive
    \/ \E state \in BOOLEAN : SetGroupResponses(state)

(***************************************************************************)
(* DedupMixin and the execution path of _message_handler()                 *)
(***************************************************************************)
msg_id_timeout == 300

DEFAULT_THROTTLE_TIMEOUT == 300

COMMAND_THROTTLING == [c \in {"dice", "time", "group", "kb", "topic"} |-> 5]

max_failed_attempts == 3

failed_attempt_window == DEFAULT_THROTTLE_TIMEOUT

block_duration == 5 * DEFAULT_THROTTLE_TIMEOUT

\* the tasks that publish received packets: the UDP listener publishes on
\* mesh_message, the BLE stream on ble_notification; _message_handler
\* subscribes to both
Receivers == {"udp", "ble"}

\* commands another station sends to my callsign: the handler of !search
\* awaits the storage query, the handler of !dice never suspends
Packets ==
    { [msg_id |-> "1A", cmd |-> "search", text |-> "!SEARCH"],
      [msg_id |-> "2B", cmd |-> "dice",   text |-> "!DICE"],
      [msg_id |-> "3C", cmd |-> "search", text |-> "!SEARCH"],
      [msg_id |-> "4D", cmd |-> "dice",   text |-> "!DICE"] }

\* three commands of different content
AbusePackets ==
    { [msg_id |-> "1A", cmd |-> "search", text |-> "!SEARCH"],
      [msg_id |-> "2B", cmd |-> "dice",   text |-> "!DICE"],
      [msg_id |-> "5E", cmd |-> "time",   text |-> "!TIME"] }

SuspendingCommands == {"search"}

\* one second, past a 5-second throttle, past the 5-minute windows
ClockSteps == {1, 6, 301}

\* past the 5-minute windows of the msg_id cache, of the throttle and of the
\* failed attempts, and inside the block
AbuseClockSteps == {301}

\* _get_content_hash(): source, destination and the command word for the
\* commands with a throttle of their own, the whole text for the others
get_content_hash(src, m, dst) ==
    IF m.cmd \in DOMAIN COMMAND_THROTTLING THEN <<src, dst, m.cmd>>
    ELSE <<src, dst, m.text>>

\* _cleanup_msg_id_cache()
cleanup_msg_id_cache(cache, current_time) ==
    LET kept == {mid \in DOMAIN cache : ~(cache[mid] < current_time - msg_id_timeout)}
    IN  [mid \in kept |-> cache[mid]]

\* _is_duplicate_msg_id(), after its cleanup
is_duplicate_msg_id(cache, msg_id) == msg_id \in DOMAIN cache

\* _mark_msg_id_processed()
mark_msg_id_processed(cache, msg_id, current_time) ==
    [mid \in DOMAIN cache \cup {msg_id} |->
        IF mid = msg_id THEN current_time ELSE cache[mid]]

\* _cleanup_throttle_cache(): each entry ages out after its command's timeout
cleanup_throttle_cache(cache, current_time) ==
    LET timeout(e) == IF e.command \in DOMAIN COMMAND_THROTTLING
                      THEN COMMAND_THROTTLING[e.command]
                      ELSE DEFAULT_THROTTLE_TIMEOUT
        kept == {h \in DOMAIN cache :
                    ~(current_time - cache[h].timestamp > timeout(cache[h]))}
    IN  [h \in kept |-> cache[h]]

\* _is_throttled(), after its cleanup
is_throttled(cache, content_hash) == content_hash \in DOMAIN cache

\* _mark_content_processed()
mark_content_processed(cache, content_hash, command, current_time) ==
    [h \in DOMAIN cache \cup {content_hash} |->
        IF h = content_hash THEN [timestamp |-> current_time, command |-> command]
        ELSE cache[h]]

\* _cleanup_blocked_users(): a block ages out after block_duration
cleanup_blocked_users(blocked, current_time) ==
    LET kept == {u \in DOMAIN blocked : ~(blocked[u] < current_time - block_duration)}
    IN  [u \in kept |-> blocked[u]]

\* _cleanup_blocked_users(): block_notifications_sent.discard(src) of the
\* expired blocks
cleanup_block_notifications(sent, blocked, current_time) ==
    sent \ {u \in DOMAIN blocked : blocked[u] < current_time - block_duration}

is_user_blocked_never(blocked, src) == FALSE

\* _is_user_blocked(), after its cleanup
is_user_blocked(blocked, src) == src \in DOMAIN blocked

\* _track_failed_attempt(): the attempts of src inside the window, the
\* current one included
tracked_attempts(attempts, src, current_time) ==
    LET before == IF src \in DOMAIN attempts THEN attempts[src] ELSE <<>>
        inside(t) == t > current_time - failed_attempt_window
    IN  SelectSeq(Append(before, current_time), inside)

\* _track_failed_attempt(): self.failed_attempts afterwards
track_failed_attempt(attempts, src, current_time) ==
    [u \in DOMAIN attempts \cup {src} |->
        IF u = src THEN tracked_attempts(attempts, src, current_time)
        ELSE attempts[u]]

\* _track_failed_attempt(): self.blocked_users afterwards
block_after_attempt(blocked, attempts, src, current_time) ==
    IF Len(tracked_attempts(attempts, src, current_time)) >= max_failed_attempts
    THEN [u \in DOMAIN blocked \cup {src} |->
             IF u = src THEN current_time ELSE blocked[u]]
    ELSE blocked

IdleHandler == [pc |-> "idle", packet |-> [msg_id |-> "", cmd |-> "", text |-> ""],
                at |-> 0]

OutcomeOf(k, m, what) ==
    [task |-> k, msg_id |-> m.msg_id, cmd |-> m.cmd, at |-> now, what |-> what]

\* time.time() moves on
Tick(d) ==
    /\ ticks < MaxTicks
    /\ now' = now + d
    /\ ticks' = ticks + 1
    /\ UNCHANGED <<serviceVars, routerVars, routingVars, processed_msg_ids, command_throttle,
                   handler, outcomes, deliveries, abuseVars, storeVars, pingVars>>

\* commands whose arguments their handler rejects, and one it accepts
ArgPackets ==
    { [msg_id |-> "1A", cmd |-> "ctcping", text |-> "!CTCPING"],
      [msg_id |-> "2B", cmd |-> "ctcping", text |-> "!CTCPING CALL:OE5HWN-12 PAYLOAD:5"],
      [msg_id |-> "3C", cmd |-> "pos",     text |-> "!POS CALL:OE5HWN-12 DAYS:X"],
      [msg_id |-> "5E", cmd |-> "dice",    text |-> "!DICE"] }

\* parse_command() of these texts: the key:value pairs, with the default
\* the handler's kwargs.get() gives a key that is absent; not_int holds the
\* keys whose value int() does not accept
parse_command(text) ==
    LET defaults == [call |-> "", payload |-> 25, repeat |-> 1, days |-> 7,
                     not_int |-> {}]
    IN  CASE text = "!CTCPING CALL:OE5HWN-12 PAYLOAD:5" ->
                [defaults EXCEPT !.call = "OE5HWN-12", !.payload = 5]
          [] text = "!POS CALL:OE5HWN-12 DAYS:X" ->
                [defaults EXCEPT !.call = "OE5HWN-12", !.not_int = {"days"}]
          [] OTHER -> defaults

\* the cross mark U+274C that opens every error text
ErrorMark == "(x)"

\* what a handler gives execute_command(): a returned text or an Exception
Returned(text) == [raised |-> FALSE, text |-> text]

Raised(text) == [raised |-> TRUE, text |-> text]

\* the targets handle_ctcping() accepts: callsigns of the right pattern
\* that are neither my callsign nor blocked
PingTargets == {"OE5HWN-12"}

\* handle_ctcping() up to the start of the test
handle_ctcping(kwargs) ==
    IF kwargs.call = ""
    THEN Returned(ErrorMark \o " Target callsign required (call:TARGET)")
    ELSE IF kwargs.call \notin PingTargets
    THEN Returned(ErrorMark \o " Invalid target callsign format")
    ELSE IF "payload" \in kwargs.not_int
    THEN Returned(ErrorMark \o " Invalid payload size")
    ELSE IF kwargs.payload < 25 \/ kwargs.payload > 140
    THEN Returned(ErrorMark \o " Payload size must be between 25 and 140 bytes")
    ELSE IF "repeat" \in kwargs.not_int
    THEN Returned(ErrorMark \o " Invalid repeat count")
    ELSE IF kwargs.repeat < 1 \/ kwargs.repeat > 5
    THEN Returned(ErrorMark \o " Repeat count must be between 1 and 5")
    ELSE Returned("Ping test started")

\* handle_position() up to the storage query
handle_position(kwargs) ==
    IF "days" \in kwargs.not_int
    THEN Raised("invalid literal for int() with base 10")
    ELSE IF kwargs.call = ""
    THEN Returned(ErrorMark \o " Callsign required (call:CALLSIGN)")
    ELSE Returned("positions")

\* execute_command(): the text the handler returns, and an error text for
\* the Exception it raises
execute_command(cmd, kwargs) ==
    LET result == CASE cmd = "ctcping" -> handle_ctcping(kwargs)
                    [] cmd = "pos" -> handle_position(kwargs)
                    [] OTHER -> Returned("dice")
    IN  IF result.raised THEN ErrorMark \o " Command error: " \o result.text ELSE result.text

\* the responses that report a rejection
IsErrorReply(text) ==
    Len(text) >= Len(ErrorMark) /\ SubSeq(text, 1, Len(ErrorMark)) = ErrorMark

\* _message_handler() from its entry to its first suspension, for a command
\* the reception decision accepts: the msg_id check, the abuse check, the
\* throttle check, and then either the whole execution (a handler that never
\* suspends) or the call of execute_command().  `raises` tells whether an
\* Exception escapes the try block after the execution (the response cannot
\* be sent); execute_command() itself catches what the handler raises.
\* `response` is the text execute_command() returned, recorded when it is
\* sent ("" where the text is not modelled).
DeliverFrom(src, k, m, raises, response) ==
    /\ handler[k].pc = "idle"
    /\ deliveries < MaxDeliveries
    /\ deliveries' = deliveries + 1
    /\ LET ids == cleanup_msg_id_cache(processed_msg_ids, now)
           blk == cleanup_blocked_users(blocked_users, now)
           ntf == cleanup_block_notifications(block_notifications_sent, blocked_users, now)
           thr == cleanup_throttle_cache(command_throttle, now)
           h == get_content_hash(src, m, MyCallsign)
       IN  IF is_duplicate_msg_id(ids, m.msg_id)
           THEN /\ processed_msg_ids' = ids
                /\ outcomes' = outcomes \cup {OutcomeOf(k, m, "dropped")}
                /\ UNCHANGED <<handler, command_throttle, abuseVars>>
           ELSE IF is_user_blocked(blk, src)
           THEN /\ processed_msg_ids' = ids
                /\ blocked_users' = blk
                /\ block_notifications_sent' = ntf \cup {src}
                /\ outcomes' = outcomes \cup {OutcomeOf(k, m, "blocked")}
                /\ UNCHANGED <<handler, command_throttle, failed_attempts>>
           ELSE IF is_throttled(thr, h)
           THEN /\ processed_msg_ids' = ids
                /\ blocked_users' = blk
                /\ block_notifications_sent' = ntf
                /\ command_throttle' = thr
                /\ outcomes' = outcomes \cup {OutcomeOf(k, m, "throttled")}
                /\ UNCHANGED <<handler, failed_attempts>>
           ELSE IF m.cmd \in SuspendingCommands
           THEN /\ processed_msg_ids' = ids
                /\ blocked_users' = blk
                /\ block_notifications_sent' = ntf
                /\ command_throttle' = thr
                /\ outcomes' = outcomes \cup {OutcomeOf(k, m, "executed")}
                /\ handler' = [handler EXCEPT ![k] =
                                  [pc |-> "executing", packet |-> m, at |-> now]]
                /\ UNCHANGED failed_attempts
           ELSE /\ processed_msg_ids' = mark_msg_id_processed(ids, m.msg_id, now)
                /\ command_throttle' = mark_content_processed(thr, h, m.cmd, now)
                /\ block_notifications_sent' = ntf
                /\ UNCHANGED handler
                /\ IF raises
                   THEN /\ failed_attempts' = track_failed_attempt(failed_attempts, src, now)
                        /\ blocked_users' = block_after_attempt(blk, failed_attempts, src, now)
                        /\ outcomes' = outcomes \cup {OutcomeOf(k, m, "executed"),
                                                      OutcomeOf(k, m, "failed")}
                   ELSE /\ blocked_users' = blk
                        /\ outcomes' = outcomes \cup {OutcomeOf(k, m, "executed")}
                                          \cup IF response = "" THEN {}
                                               ELSE {OutcomeOf(k, m, response)}
                        /\ UNCHANGED failed_attempts
    /\ UNCHANGED <<serviceVars, routerVars, routingVars, now, ticks, storeVars, pingVars>>

\* a command another station sends to my callsign
DeliverReply(k, m, raises, response) == DeliverFrom(OtherCallsign, k, m, raises, response)

Deliver(k, m, raises) == DeliverReply(k, m, raises, "")

\* `await self.execute_command(...)` returns: the msg_id and the content
\* are marked, and the response is sent; an Exception escaping from there
\* is a failed attempt
ExecuteReturn(k, raises) ==
    /\ handler[k].pc = "executing"
    /\ LET src == OtherCallsign
           m == handler[k].packet
           h == get_content_hash(src, m, MyCallsign)
       IN  /\ processed_msg_ids' = mark_msg_id_processed(processed_msg_ids, m.msg_id, now)
           /\ command_throttle' = mark_content_processed(command_throttle, h, m.cmd, now)
           /\ IF raises
              THEN /\ failed_attempts' = track_failed_attempt(failed_attempts, src, now)
                   /\ blocked_users' = block_after_attempt(blocked_users, failed_attempts, src, now)
                   /\ outcomes' = outcomes \cup {OutcomeOf(k, m, "failed")}
              ELSE /\ outcomes' = outcomes \cup {OutcomeOf(k, m, "returned")}
                   /\ UNCHANGED <<failed_attempts, blocked_users>>
    /\ handler' = [handler EXCEPT ![k].pc = "idle"]
    /\ UNCHANGED <<serviceVars, routerVars, routingVars, now, ticks, deliveries,
                   block_notifications_sent, storeVars, pingVars>>

CmdIdle ==
    /\ now = 0
    /\ ticks = 0
    /\ processed_msg_ids = [mid \in {} |-> 0]
    /\ command_throttle = [h \in {} |-> 0]
    /\ handler = [k \in Receivers |-> IdleHandler]
    /\ outcomes = {}
    /\ deliveries = 0
    /\ failed_attempts = [u \in {} |-> <<>>]
    /\ blocked_users = [u \in {} |-> 0]
    /\ block_notifications_sent = {}

CmdNext ==
    \/ \E d \in ClockSteps : Tick(d)
    \/ \E k \in Receivers, m \in Packets : Deliver(k, m, FALSE)
    \/ \E k \in Receivers : ExecuteReturn(k, FALSE)

\* time.time() moves on while responses fail
AbuseTick(d) ==
    /\ ticks < MaxAbuseTicks
    /\ Tick(d)

\* the same handler while the response of a command that does not suspend
\* cannot be sent, and that of a suspending command may or may not be
AbuseNext ==
    \/ \E d \in AbuseClockSteps : AbuseTick(d)
    \/ \E k \in Receivers, m \in AbusePackets : Deliver(k, m, TRUE)
    \/ \E k \in Receivers, raises \in BOOLEAN : ExecuteReturn(k, raises)

\* the same handler for commands with arguments, whose responses are sent
ArgsNext ==
    \/ \E d \in ClockSteps : Tick(d)
    \/ \E k \in Receivers, m \in ArgPackets :
          DeliverReply(k, m, FALSE, execute_command(m.cmd, parse_command(m.text)))

\* the digits of the format specification X
HexDigits == <<"0", "1", "2", "3", "4", "5", "6", "7",
               "8", "9", "A", "B", "C", "D", "E", "F">>

\* f"{current_time:08X}": eight upper-case hexadecimal digits
hex8(t) ==
    LET digit(i) == HexDigits[((t \div (16 ^ i)) % 16) + 1]
    IN  digit(7) \o digit(6) \o digit(5) \o digit(4)
            \o digit(3) \o digit(2) \o digit(1) \o digit(0)

\* commands of my own callsign that the router diverts to the command
\* handler; none of their handlers suspends
SyntheticCommands ==
    { [cmd |-> "dice", text |-> "!DICE"],
      [cmd |-> "time", text |-> "!TIME"] }

\* _create_synthetic_message(): the msg_id of the record is the current
\* second, int(time.time()), in hexadecimal
synthetic_msg_id(current_time) == hex8(current_time)

\* _route_to_command_handler() calls _message_handler() with the record
\* _create_synthetic_message() built at this second
DeliverSynthetic(k, c) ==
    DeliverFrom(MyCallsign, k,
                [msg_id |-> synthetic_msg_id(now), cmd |-> c.cmd, text |-> c.text],
                FALSE, "")

\* the command handler while the router diverts commands of my callsign
SynthNext ==
    \/ \E d \in ClockSteps : Tick(d)
    \/ \E k \in Receivers, c \in SyntheticCommands : DeliverSynthetic(k, c)

\* message_data.get("msg_id") of a record without the key: None, which
\* equals no msg_id string and is a dictionary key like any other
NoMsgId == "None"

\* commands of another station, two of them in records without msg_id
IdlessPackets ==
    { [msg_id |-> NoMsgId, cmd |-> "dice", text |-> "!DICE"],
      [msg_id |-> NoMsgId, cmd |-> "time", text |-> "!TIME"],
      [msg_id |-> "1A",    cmd |-> "search", text |-> "!SEARCH"] }

\* the command handler while records without msg_id arrive
IdlessNext ==
    \/ \E d \in ClockSteps : Tick(d)
    \/ \E k \in Receivers, m \in IdlessPackets : Deliver(k, m, FALSE)
    \/ \E k \in Receivers : ExecuteReturn(k, FALSE)

(***************************************************************************)
(* SQLiteStorage.store_message (sqlite_storage.py)                         *)
(***************************************************************************)
DEDUP_WINDOW_MS == 1200000

\* "NULL" stands for a record without msg_id
StoredIds == {"NULL", "1A"}

\* the millisecond timestamps the records carry
StoredTimestamps == {0, 1, DEDUP_WINDOW_MS + 1}

\* records of type 'msg' that pass _should_filter_message()
StoredRecords ==
    [msg_id : StoredIds, timestamp : StoredTimestamps, type : {"msg"},
     src : {"DK5EN-99"}, rssi : {0}, send_success : {0}]

\* MHeard throttle window of store_message(), in milliseconds
throttle_ms == 120000

\* the stations heard by the node
MheardCallsigns == {"OE5HWN-12", "DL1AAA-1"}

\* the node's DATE/TIME of a beacon, in milliseconds; the node reports its
\* heard list in any order
MheardTimestamps == {0, 100000, 130000}

MheardRssi == {-90, -70}

\* transform_mh(): a beacon has type 'pos', src_type 'ble' and no msg_id
MheardBeacons ==
    [msg_id : {"NULL"}, timestamp : MheardTimestamps, type : {"pos"},
     src : MheardCallsigns, rssi : MheardRssi, send_success : {0}]

IdleStoring ==
    [pc |-> "idle", row |-> 0,
     message |-> [msg_id |-> "NULL", timestamp |-> 0, type |-> "msg",
                  src |-> "DK5EN-99", rssi |-> 0, send_success |-> 0]]

\* SELECT 1 FROM messages WHERE msg_id = ? AND timestamp > ? LIMIT 1
select_existing(rows, msg_id, after) ==
    {i \in 1..Len(rows) : rows[i].msg_id = msg_id /\ rows[i].timestamp > after}

\* store_message() up to the answer of its dedup query, which runs in a
\* worker thread while the event loop serves other tasks
StoreSelect(k, m) ==
    /\ storing[k].pc = "idle"
    /\ store_calls < MaxStores
    /\ store_calls' = store_calls + 1
    /\ IF m.msg_id # "NULL"
          /\ select_existing(messages, m.msg_id, m.timestamp - DEDUP_WINDOW_MS) # {}
       THEN UNCHANGED storing
       ELSE storing' = [storing EXCEPT ![k] = [pc |-> "insert", row |-> 0, message |-> m]]
    /\ UNCHANGED <<serviceVars, routerVars, routingVars, cmdVars, pingVars, messages>>

\* the INSERT INTO messages runs
StoreInsert(k) ==
    /\ storing[k].pc = "insert"
    /\ messages' = Append(messages, storing[k].message)
    /\ storing' = [storing EXCEPT ![k].pc = "idle"]
    /\ UNCHANGED <<serviceVars, routerVars, routingVars, cmdVars, pingVars, store_calls>>

\* SELECT id FROM messages WHERE src = ? AND src_type = 'ble' AND type = 'pos'
\* AND msg_id IS NULL AND timestamp > ?
mheard_rows(rows, src, after) ==
    {i \in 1..Len(rows) : /\ rows[i].type = "pos"
                          /\ rows[i].msg_id = "NULL"
                          /\ rows[i].src = src
                          /\ rows[i].timestamp > after}

\* ... ORDER BY timestamp DESC LIMIT 1: the rows the query may return
mheard_existing(rows, src, after) ==
    {i \in mheard_rows(rows, src, after) :
        \A j \in mheard_rows(rows, src, after) : rows[j].timestamp <= rows[i].timestamp}

\* store_message() of an MHeard beacon up to the answer of its throttle
\* query; beacons come from the BLE notification task only.  A beacon without
\* a row in the window goes on to the INSERT (its msg_id is None, so the
\* msg_id dedup query is skipped).
MheardSelect(m) ==
    /\ storing["ble"].pc = "idle"
    /\ store_calls < MaxStores
    /\ store_calls' = store_calls + 1
    /\ LET existing == mheard_existing(messages, m.src, m.timestamp - throttle_ms)
       IN  IF existing = {}
           THEN storing' = [storing EXCEPT !["ble"] =
                               [pc |-> "insert", row |-> 0, message |-> m]]
           ELSE \E i \in existing :
                    storing' = [storing EXCEPT !["ble"] =
                                   [pc |-> "update", row |-> i, message |-> m]]
    /\ UNCHANGED <<serviceVars, routerVars, routingVars, cmdVars, pingVars, messages>>

\* UPDATE messages SET rssi = ?, snr = ?, timestamp = ?, raw_json = ? WHERE id = ?
mheard_update(rows, i, m) ==
    [rows EXCEPT ![i].rssi = m.rssi, ![i].timestamp = m.timestamp]

MheardUpdate ==
    /\ storing["ble"].pc = "update"
    /\ messages' = mheard_update(messages, storing["ble"].row, storing["ble"].message)
    /\ storing' = [storing EXCEPT !["ble"].pc = "idle"]
    /\ UNCHANGED <<serviceVars, routerVars, routingVars, cmdVars, pingVars, store_calls>>

\* transform_ack(): the ack_id of a binary ACK in eight hexadecimal digits;
\* an id that messages were stored with, and one that none was
AckIds == {"1A", "9F"}

\* SELECT id FROM messages WHERE msg_id = ? AND type = 'msg'
ack_rows(rows, ack_id) ==
    {i \in 1..Len(rows) : rows[i].msg_id = ack_id /\ rows[i].type = "msg"}

ack_target_any(rows, ack_id) == ack_rows(rows, ack_id)

\* ... ORDER BY timestamp DESC LIMIT 1: the rows the subquery may return
ack_target(rows, ack_id) ==
    {i \in ack_rows(rows, ack_id) :
        \A j \in ack_rows(rows, ack_id) : rows[j].timestamp <= rows[i].timestamp}

\* store_message() of a record of type 'ack' that passes the filter: one
\* UPDATE messages SET send_success = 1 WHERE id = (...), and no INSERT
StoreAck(k, ack_id) ==
    /\ storing[k].pc = "idle"
    /\ store_calls < MaxStores
    /\ store_calls' = store_calls + 1
    /\ IF ack_target(messages, ack_id) = {}
       THEN UNCHANGED messages
       ELSE \E i \in ack_target(messages, ack_id) :
                messages' = [messages EXCEPT ![i].send_success = 1]
    /\ UNCHANGED <<serviceVars, routerVars, routingVars, cmdVars, pingVars, storing>>

StoreIdle ==
    /\ messages = <<>>
    /\ storing = [k \in Receivers |-> IdleStoring]
    /\ store_calls = 0

StoreNext ==
    \/ \E k \in Receivers, m \in StoredRecords : StoreSelect(k, m)
    \/ \E k \in Receivers : StoreInsert(k)
    \/ \E m \in MheardBeacons : MheardSelect(m)
    \/ MheardUpdate

\* the storage while binary ACKs arrive among the messages
AckNext ==
    \/ StoreNext
    \/ \E k \in Receivers, ack_id \in AckIds : StoreAck(k, ack_id)

(***************************************************************************)
(* CTCPingMixin: the ping test state machine (commands/ctcping.py)         *)
(***************************************************************************)
ping_timeout == 30

PingInterval == 20

MonitorMaxWait == 300

\* the clock of a ping test moves in steps that divide both sleeps
ClockStep == ping_timeout - PingInterval

\* one test towards one target: f"{target}_{int(time.time())}"
TestId == "OE5HWN-12_0"

IdleSummary ==
    [status |-> "none", total_pings |-> 0, completed |-> 0, timeouts |-> 0,
     monitor_task |-> FALSE, completed_sequences |-> {}, results |-> {}]

IdleStarter == [pc |-> "idle", sequence |-> 0, wake |-> 0]

IdleMonitor == [pc |-> "none", start_time |-> 0, cancel |-> FALSE]

\* dict without a key
Without(f, k) == [x \in DOMAIN f \ {k} |-> f[x]]

\* dict with a key set
With(f, k, v) == [x \in DOMAIN f \cup {k} |-> IF x = k THEN v ELSE f[x]]

\* _find_test_id_for_target(): the running test of the target, "" for None
find_test_id_for_target ==
    IF TestId \in ping_tests /\ test_summary.status = "running" THEN TestId ELSE ""

\* _check_test_completion() on a running test: an over-completion is cut
\* back, and the test is complete when every ping is accounted for
check_test_completion(ts) ==
    LET total == ts.completed + ts.timeouts
        excess == total - ts.total_pings
        cut == IF total > ts.total_pings
               THEN IF ts.completed >= excess
                    THEN [ts EXCEPT !.completed = @ - excess]
                    ELSE [ts EXCEPT !.timeouts = @ - excess]
               ELSE ts
    IN  [summary |-> cut, complete |-> total >= ts.total_pings]

\* an entry of test_summary["results"]
PingResult(sequence, status) == [sequence |-> sequence, status |-> status]

\* _record_ping_result() for the timeout result of a ping
record_ping_result(ts, sequence) ==
    IF TestId \notin ping_tests \/ ts.status # "running"
    THEN [summary |-> ts, complete |-> FALSE]
    ELSE LET rs == [ts EXCEPT !.results = @ \cup {PingResult(sequence, "timeout")}]
         IN  check_test_completion(
                IF rs.timeouts < rs.total_pings
                THEN [rs EXCEPT !.timeouts = @ + 1] ELSE rs)

\* handle_ctcping() accepts the command and _start_ping_test() runs up to
\* its first send
StartPingTest(K) ==
    /\ starter.pc = "idle"
    /\ ping_tests' = ping_tests \cup {TestId}
    /\ test_summary' = [IdleSummary EXCEPT !.status = "running", !.total_pings = K]
    /\ starter' = [pc |-> "sending", sequence |-> 1, wake |-> 0]
    /\ radio' = [radio EXCEPT !.sent = @ \cup {1}]
    /\ UNCHANGED <<serviceVars, routerVars, routingVars, cmdVars, storeVars, active_pings,
                   timeout_tasks, ack_tasks, complete_task, completion_event,
                   monitor, emitted>>

\* the publish of a ping returns: sleep before the next one, or, after the
\* last one, create the monitor task
SendReturn ==
    /\ starter.pc = "sending"
    /\ IF starter.sequence < test_summary.total_pings
       THEN /\ starter' = [starter EXCEPT !.pc = "sleeping", !.wake = now + PingInterval]
            /\ UNCHANGED <<monitor, test_summary>>
       ELSE /\ starter' = [starter EXCEPT !.pc = "done"]
            /\ monitor' = [pc |-> "created", start_time |-> now, cancel |-> FALSE]
            /\ test_summary' = [test_summary EXCEPT !.monitor_task = TRUE]
    /\ UNCHANGED <<serviceVars, routerVars, routingVars, cmdVars, storeVars, ping_tests,
                   active_pings, timeout_tasks, ack_tasks, complete_task,
                   completion_event, emitted, radio>>

\* asyncio.sleep(20.0) is over: the loop sends the next ping, or breaks when
\* the test is no longer running and goes on to create the monitor task
StarterWake ==
    /\ starter.pc = "sleeping"
    /\ now >= starter.wake
    /\ IF test_summary.status # "running"
       THEN /\ starter' = [starter EXCEPT !.pc = "done"]
            /\ monitor' = [pc |-> "created", start_time |-> now, cancel |-> FALSE]
            /\ test_summary' = [test_summary EXCEPT !.monitor_task = TRUE]
            /\ UNCHANGED radio
       ELSE /\ starter' = [starter EXCEPT !.pc = "sending", !.sequence = @ + 1]
            /\ radio' = [radio EXCEPT !.sent = @ \cup {starter.sequence + 1}]
            /\ UNCHANGED <<monitor, test_summary>>
    /\ UNCHANGED <<serviceVars, routerVars, routingVars, cmdVars, storeVars, ping_tests,
                   active_pings, timeout_tasks, ack_tasks, complete_task,
                   completion_event, emitted>>

\* _handle_echo_message(): the radio echoes ping i with its id
Echo(i) ==
    /\ i \in radio.sent
    /\ radio.echoes < MaxEchoes
    /\ radio' = [radio EXCEPT !.echoes = @ + 1]
    /\ IF i \in DOMAIN active_pings
       THEN UNCHANGED <<active_pings, timeout_tasks>>
       ELSE /\ active_pings' = With(active_pings, i,
                                    [test_id |-> find_test_id_for_target,
                                     ack_processed |-> FALSE])
            /\ timeout_tasks' = timeout_tasks \cup {[id |-> i, due |-> now + ping_timeout]}
    /\ UNCHANGED <<serviceVars, routerVars, routingVars, cmdVars, storeVars, ping_tests,
                   test_summary, starter, ack_tasks, complete_task,
                   completion_event, monitor, emitted>>

\* _handle_ack_message() up to `await self._send_ping_result(...)`
Ack(i) ==
    /\ i \in radio.sent
    /\ radio.acks < MaxAcks
    /\ radio' = [radio EXCEPT !.acks = @ + 1]
    /\ IF i \notin DOMAIN active_pings
       THEN UNCHANGED <<active_pings, test_summary, ack_tasks, emitted>>
       ELSE IF active_pings[i].ack_processed
       THEN UNCHANGED <<active_pings, test_summary, ack_tasks, emitted>>
       ELSE IF /\ active_pings[i].test_id = TestId
               /\ TestId \in ping_tests
               /\ test_summary.status = "running"
               /\ i \notin test_summary.completed_sequences
       THEN /\ active_pings' = [active_pings EXCEPT ![i].ack_processed = TRUE]
            /\ test_summary' = [test_summary EXCEPT
                                   !.completed = @ + 1,
                                   !.completed_sequences = @ \cup {i},
                                   !.results = @ \cup {PingResult(i, "success")}]
            /\ ack_tasks' = ack_tasks \cup
                  {[id |-> i,
                    test_completed |->
                        test_summary.completed + 1 + test_summary.timeouts
                            >= test_summary.total_pings]}
            /\ emitted' = [emitted EXCEPT !.results = @ + 1]
       ELSE /\ active_pings' = Without(active_pings, i)
            /\ UNCHANGED <<test_summary, ack_tasks, emitted>>
    /\ UNCHANGED <<serviceVars, routerVars, routingVars, cmdVars, storeVars, ping_tests,
                   starter, timeout_tasks, complete_task, completion_event, monitor>>

\* _handle_ack_message() after its send: the completion task is created
\* once per test, and the ping leaves active_pings
AckResume(t) ==
    /\ t \in ack_tasks
    /\ ack_tasks' = ack_tasks \ {t}
    /\ IF t.test_completed /\ ~completion_event
       THEN completion_event' = TRUE /\ complete_task' = "spawned"
       ELSE UNCHANGED <<completion_event, complete_task>>
    /\ active_pings' = Without(active_pings, t.id)
    /\ UNCHANGED <<serviceVars, routerVars, routingVars, cmdVars, storeVars, ping_tests,
                   test_summary, starter, timeout_tasks, monitor, emitted, radio>>

\* _ping_timeout_task() after asyncio.sleep(self.ping_timeout)
TimeoutFire(t) ==
    /\ t \in timeout_tasks
    /\ now >= t.due
    /\ timeout_tasks' = timeout_tasks \ {t}
    /\ IF t.id \notin DOMAIN active_pings
       THEN UNCHANGED <<active_pings, test_summary, completion_event,
                        complete_task, emitted>>
       ELSE LET rec == IF active_pings[t.id].test_id = TestId
                       THEN record_ping_result(test_summary, t.id)
                       ELSE [summary |-> test_summary, complete |-> FALSE]
            IN  /\ test_summary' = rec.summary
                /\ IF rec.complete /\ ~completion_event
                   THEN completion_event' = TRUE /\ complete_task' = "spawned"
                   ELSE UNCHANGED <<completion_event, complete_task>>
                /\ active_pings' = Without(active_pings, t.id)
                /\ IF active_pings[t.id].test_id = TestId /\ TestId \in ping_tests
                   THEN emitted' = [emitted EXCEPT !.results = @ + 1]
                   ELSE UNCHANGED emitted
    /\ UNCHANGED <<serviceVars, routerVars, routingVars, cmdVars, storeVars, ping_tests,
                   starter, ack_tasks, monitor, radio>>

\* the monitor task can still be cancelled
monitor_running == monitor.pc \in {"created", "polling", "sending_summary", "sending_timeout"}

\* _complete_test() from its start to its first suspension; returning
\* early, _complete_test_with_cleanup() removes the completion event
CompleteRun ==
    /\ complete_task = "spawned"
    /\ IF TestId \notin ping_tests \/ test_summary.status # "running"
       THEN /\ complete_task' = "idle"
            /\ completion_event' = FALSE
            /\ UNCHANGED <<test_summary, monitor, emitted>>
       ELSE IF test_summary.monitor_task /\ monitor_running
       THEN /\ test_summary' = [test_summary EXCEPT !.status = "completing"]
            /\ monitor' = [monitor EXCEPT !.cancel = TRUE]
            /\ complete_task' = "await_monitor"
            /\ UNCHANGED <<completion_event, emitted>>
       ELSE /\ test_summary' = [test_summary EXCEPT !.status = "completed"]
            /\ emitted' = [emitted EXCEPT !.summaries = @ + 1]
            /\ complete_task' = "sending_summary"
            /\ UNCHANGED <<completion_event, monitor>>
    /\ UNCHANGED <<serviceVars, routerVars, routingVars, cmdVars, storeVars, ping_tests,
                   active_pings, starter, timeout_tasks, ack_tasks, radio>>

\* `await monitor_task` is over: the status becomes completed and
\* _send_test_summary() sends the summary of a test that is still present
CompleteAfterMonitor ==
    /\ complete_task = "await_monitor"
    /\ ~monitor_running
    /\ test_summary' = [test_summary EXCEPT !.status = "completed"]
    /\ IF TestId \in ping_tests
       THEN /\ emitted' = [emitted EXCEPT !.summaries = @ + 1]
            /\ complete_task' = "sending_summary"
            /\ UNCHANGED completion_event
       ELSE /\ complete_task' = "idle"
            /\ completion_event' = FALSE
            /\ UNCHANGED emitted
    /\ UNCHANGED <<serviceVars, routerVars, routingVars, cmdVars, storeVars, ping_tests,
                   active_pings, starter, timeout_tasks, ack_tasks, monitor, radio>>

\* the summary is out: `del self.ping_tests[test_id]`, then the cleanup
CompleteSummarySent ==
    /\ complete_task = "sending_summary"
    /\ ping_tests' = ping_tests \ {TestId}
    /\ complete_task' = "idle"
    /\ completion_event' = FALSE
    /\ UNCHANGED <<serviceVars, routerVars, routingVars, cmdVars, storeVars, test_summary,
                   active_pings, starter, timeout_tasks, ack_tasks, monitor,
                   emitted, radio>>

\* a monitor that a cancellation does not stop
MonitorPollUncancelled ==
    /\ monitor.pc \in {"created", "polling"}
    /\ IF /\ TestId \in ping_tests
          /\ test_summary.completed + test_summary.timeouts >= test_summary.total_pings
       THEN /\ test_summary' = [test_summary EXCEPT !.status = "completed"]
            /\ emitted' = [emitted EXCEPT !.summaries = @ + 1]
            /\ monitor' = [monitor EXCEPT !.pc = "sending_summary"]
       ELSE /\ monitor' = [monitor EXCEPT !.pc = IF TestId \in ping_tests
                                                 THEN "polling" ELSE "done"]
            /\ UNCHANGED <<test_summary, emitted>>
    /\ UNCHANGED <<serviceVars, routerVars, routingVars, cmdVars, storeVars, ping_tests,
                   active_pings, starter, timeout_tasks, ack_tasks, complete_task,
                   completion_event, radio>>

\* one round of the loop of _monitor_test_completion(), or the cancellation
\* delivered at its sleep
MonitorPoll ==
    /\ monitor.pc \in {"created", "polling"}
    /\ IF monitor.cancel
       THEN /\ monitor' = [monitor EXCEPT !.pc = "cancelled"]
            /\ UNCHANGED <<test_summary, emitted>>
       ELSE IF now - monitor.start_time >= MonitorMaxWait
       THEN IF TestId \in ping_tests
            THEN /\ test_summary' = [test_summary EXCEPT !.status = "timeout"]
                 /\ emitted' = [emitted EXCEPT !.notices = @ + 1]
                 /\ monitor' = [monitor EXCEPT !.pc = "sending_timeout"]
            ELSE /\ monitor' = [monitor EXCEPT !.pc = "done"]
                 /\ UNCHANGED <<test_summary, emitted>>
       ELSE IF TestId \notin ping_tests
       THEN /\ monitor' = [monitor EXCEPT !.pc = "done"]
            /\ UNCHANGED <<test_summary, emitted>>
       ELSE IF test_summary.completed + test_summary.timeouts >= test_summary.total_pings
       THEN /\ test_summary' = [test_summary EXCEPT !.status = "completed"]
            /\ emitted' = [emitted EXCEPT !.summaries = @ + 1]
            /\ monitor' = [monitor EXCEPT !.pc = "sending_summary"]
       ELSE /\ monitor' = [monitor EXCEPT !.pc = "polling"]
            /\ UNCHANGED <<test_summary, emitted>>
    /\ UNCHANGED <<serviceVars, routerVars, routingVars, cmdVars, storeVars, ping_tests,
                   active_pings, starter, timeout_tasks, ack_tasks, complete_task,
                   completion_event, radio>>

\* the monitor's message is out: `del self.ping_tests[test_id]`
MonitorSummarySent ==
    /\ monitor.pc \in {"sending_summary", "sending_timeout"}
    /\ ping_tests' = ping_tests \ {TestId}
    /\ monitor' = [monitor EXCEPT !.pc = "done"]
    /\ UNCHANGED <<serviceVars, routerVars, routingVars, cmdVars, storeVars, test_summary,
                   active_pings, starter, timeout_tasks, ack_tasks, complete_task,
                   completion_event, emitted, radio>>

\* the monitor, polling every second, has something to do
monitor_due ==
    /\ monitor.pc = "polling"
    /\ \/ monitor.cancel
       \/ TestId \notin ping_tests
       \/ test_summary.completed + test_summary.timeouts >= test_summary.total_pings
       \/ now - monitor.start_time >= MonitorMaxWait

\* time moves on once every task that can run has run: sends and task
\* starts take no time on this clock, and a sleep that is over ends first
PingClock(limit) ==
    /\ now < limit
    /\ starter.pc \in {"sleeping", "done"}
    /\ starter.pc = "sleeping" => now < starter.wake
    /\ \A t \in timeout_tasks : now < t.due
    /\ ack_tasks = {}
    /\ complete_task = "idle"
    /\ monitor.pc \in {"none", "polling", "cancelled", "done", "failed"}
    /\ ~monitor_due
    /\ now' = now + ClockStep
    /\ UNCHANGED <<serviceVars, routerVars, routingVars, ticks, processed_msg_ids,
                   command_throttle, handler, outcomes, deliveries, abuseVars,
                   storeVars, pingVars>>

PingTick == PingClock(MaxPingClock)

PingIdle ==
    /\ ping_tests = {}
    /\ test_summary = IdleSummary
    /\ active_pings = [i \in {} |-> 0]
    /\ starter = IdleStarter
    /\ timeout_tasks = {}
    /\ ack_tasks = {}
    /\ complete_task = "idle"
    /\ completion_event = FALSE
    /\ monitor = IdleMonitor
    /\ emitted = [results |-> 0, summaries |-> 0, notices |-> 0]
    /\ radio = [sent |-> {}, echoes |-> 0, acks |-> 0]

PingNext ==
    \/ \E K \in 1..MaxRepeat : StartPingTest(K)
    \/ SendReturn
    \/ StarterWake
    \/ \E i \in radio.sent : Echo(i)
    \/ \E i \in radio.sent : Ack(i)
    \/ \E t \in ack_tasks : AckResume(t)
    \/ \E t \in timeout_tasks : TimeoutFire(t)
    \/ CompleteRun
    \/ CompleteAfterMonitor
    \/ CompleteSummarySent
    \/ MonitorPoll
    \/ MonitorSummarySent
    \/ PingTick

\* an Exception is raised inside the try block of
\* _monitor_test_completion(): the except branch prints it and the task
\* ends
MonitorFails ==
    /\ monitor.pc \in {"created", "polling"}
    /\ ~monitor.cancel
    /\ monitor' = [monitor EXCEPT !.pc = "failed"]
    /\ UNCHANGED <<serviceVars, routerVars, routingVars, cmdVars, storeVars, ping_tests,
                   test_summary, active_pings, starter, timeout_tasks, ack_tasks,
                   complete_task, completion_event, emitted, radio>>

\* a ping test whose monitor may fail
FailingPingNext ==
    \/ PingNext
    \/ MonitorFails

\* a test on a radio that echoes and acknowledges little, watched until
\* its monitor has given up
LongTick == PingClock(MaxTestClock)

LongPingNext ==
    \/ \E K \in 1..MaxRepeat : StartPingTest(K)
    \/ SendReturn
    \/ StarterWake
    \/ \E i \in radio.sent : radio.echoes < MaxLateEchoes /\ Echo(i)
    \/ \E i \in radio.sent : radio.acks < MaxLateAcks /\ Ack(i)
    \/ \E t \in ack_tasks : AckResume(t)
    \/ \E t \in timeout_tasks : TimeoutFire(t)
    \/ CompleteRun
    \/ CompleteAfterMonitor
    \/ CompleteSummarySent
    \/ MonitorPoll
    \/ MonitorSummarySent
    \/ LongTick

(***************************************************************************)
(* SQLiteStorage: signal bucket accumulators (sqlite_storage.py)           *)
(*                                                                         *)
(* The dual write of store_message() for an MHeard beacon with rssi and    *)
(* snr in the valid ranges: the row appended to signal_log, the in-memory  *)
(* accumulator and the flush of completed buckets.  It touches neither     *)
(* table messages nor the msg_id dedup, which are modelled above.  A       *)
(* bucket is represented by its number of samples.                         *)
(***************************************************************************)
BUCKET_SECONDS == 300

bucket_ms == BUCKET_SECONDS * 1000

SignalCallsigns == {"OE5HWN-12", "DL1AAA-1"}

\* beacon timestamps in three consecutive buckets
SignalTimestamps == {0, 1000, bucket_ms, 2 * bucket_ms}

\* bucket_start = (timestamp_ms // bucket_ms) * bucket_ms
bucket_start_of(timestamp_ms) == (timestamp_ms \div bucket_ms) * bucket_ms

NoRows == [k \in {} |-> 0]

IdleFlush == [pc |-> "idle", rows |-> NoRows]

\* self._bucket_accumulators[key]["rssi"].append(rssi), with the key created
\* when it is missing
with_sample(acc, key) ==
    [k \in DOMAIN acc \cup {key} |->
        IF k = key THEN (IF key \in DOMAIN acc THEN acc[key] ELSE 0) + 1
        ELSE acc[k]]

\* the keys of this callsign's buckets older than the sample's bucket
completed_keys(acc, callsign, bucket_start) ==
    {k \in DOMAIN acc : k[1] = callsign /\ k[2] < bucket_start}

\* _accumulate_signal(): the completed buckets it returns
completed_buckets(acc, callsign, timestamp_ms) ==
    LET added == with_sample(acc, <<callsign, bucket_start_of(timestamp_ms)>>)
    IN  [k \in completed_keys(added, callsign, bucket_start_of(timestamp_ms)) |-> added[k]]

\* _accumulate_signal(): self._bucket_accumulators afterwards
accumulate_signal(acc, callsign, timestamp_ms) ==
    LET added == with_sample(acc, <<callsign, bucket_start_of(timestamp_ms)>>)
        kept == DOMAIN added \ completed_keys(added, callsign, bucket_start_of(timestamp_ms))
    IN  [k \in kept |-> added[k]]

\* INSERT OR REPLACE INTO signal_buckets; the primary key is
\* (callsign, bucket_ts, bucket_size) and bucket_size is always bucket_ms
insert_or_replace(table, rows) ==
    [k \in DOMAIN table \cup DOMAIN rows |->
        IF k \in DOMAIN rows THEN rows[k] ELSE table[k]]

\* store_message() of a valid MHeard sample: INSERT INTO signal_log,
\* _accumulate_signal(), and _flush_completed_buckets() up to its write
AcceptSample(callsign, timestamp_ms) ==
    /\ flushing.pc = "idle"
    /\ accepted < MaxSamples
    /\ accepted' = accepted + 1
    /\ bucket_accumulators' = accumulate_signal(bucket_accumulators, callsign, timestamp_ms)
    /\ LET completed == completed_buckets(bucket_accumulators, callsign, timestamp_ms)
       IN  flushing' = IF DOMAIN completed = {} THEN IdleFlush
                       ELSE [pc |-> "writing", rows |-> completed]
    /\ UNCHANGED <<notSignalVars, signal_buckets, flush_all>>

\* _flush_completed_buckets(): the write of the completed buckets
FlushCompleted ==
    /\ flushing.pc = "writing"
    /\ signal_buckets' = insert_or_replace(signal_buckets, flushing.rows)
    /\ flushing' = IdleFlush
    /\ UNCHANGED <<notSignalVars, bucket_accumulators, accepted, flush_all>>

\* _flush_all_accumulators(), called by the statistics query: the rows of
\* all open accumulators are computed; the accumulators stay as they are
FlushAllStart ==
    /\ flush_all.pc = "idle"
    /\ flush_all.calls < MaxFlushAll
    /\ DOMAIN bucket_accumulators # {}
    /\ flush_all' = [pc |-> "writing", rows |-> bucket_accumulators,
                     calls |-> flush_all.calls + 1]
    /\ UNCHANGED <<notSignalVars, bucket_accumulators, signal_buckets, accepted, flushing>>

\* _flush_all_accumulators(): its write
FlushAllWrite ==
    /\ flush_all.pc = "writing"
    /\ signal_buckets' = insert_or_replace(signal_buckets, flush_all.rows)
    /\ flush_all' = [flush_all EXCEPT !.pc = "idle", !.rows = NoRows]
    /\ UNCHANGED <<notSignalVars, bucket_accumulators, accepted, flushing>>

SignalIdle ==
    /\ bucket_accumulators = NoRows
    /\ signal_buckets = NoRows
    /\ accepted = 0
    /\ flushing = IdleFlush
    /\ flush_all = [pc |-> "idle", rows |-> NoRows, calls |-> 0]

SignalNext ==
    \/ \E c \in SignalCallsigns, t \in SignalTimestamps : AcceptSample(c, t)
    \/ FlushCompleted
    \/ FlushAllStart
    \/ FlushAllWrite

(***************************************************************************)
(* The update runner (scripts/update-runner.py)                            *)
(*                                                                         *)
(* Every run is a process of its own that works on the slot layout it      *)
(* finds on disk: the symlink current, the metadata file of each slot, the *)
(* configuration files under /etc and the snapshot archive of each slot.   *)
(* The content of the /etc files and of an archive is a generation number, *)
(* deployed_at is the number of a clock reading; 0 stands for None.        *)
(***************************************************************************)
NumSlots == 3

\* range(3)
Slots == 0..(NumSlots - 1)

\* None where a slot id is expected: a value outside range(3)
NoSlot == NumSlots

EmptyMeta == [version |-> "None", status |-> "empty", deployed_at |-> 0]

\* the metadata run_update writes for the slot it deployed
DeployedMeta(at) == [version |-> "v", status |-> "active", deployed_at |-> at]

IdleRunner == [pc |-> "idle", active_slot |-> NoSlot, target_slot |-> NoSlot,
               swapped |-> FALSE, result |-> "None", runs |-> 0]

\* meta.get("status") == "empty" or not meta.get("version")
is_empty_slot(meta) == meta.status = "empty" \/ meta.version = "None"

\* get_oldest_slot(): the first empty slot, else the first of the sorted
\* (deployed_at, i) pairs of the slots that are not active
get_oldest_slot(active, meta) ==
    IF \E i \in Slots : is_empty_slot(meta[i])
    THEN CHOOSE i \in Slots :
            /\ is_empty_slot(meta[i])
            /\ \A j \in Slots : is_empty_slot(meta[j]) => i <= j
    ELSE CHOOSE i \in Slots \ {active} :
            \A j \in Slots \ {active} :
                \/ meta[i].deployed_at < meta[j].deployed_at
                \/ meta[i].deployed_at = meta[j].deployed_at /\ i <= j

\* get_rollback_slot(): the candidates, and the latest of them
rollback_candidates(active, meta) ==
    {i \in Slots \ {active} : meta[i].version # "None" /\ meta[i].deployed_at # 0}

get_rollback_slot(active, meta) ==
    IF rollback_candidates(active, meta) = {} THEN NoSlot
    ELSE CHOOSE i \in rollback_candidates(active, meta) :
            \A j \in rollback_candidates(active, meta) :
                \/ meta[i].deployed_at > meta[j].deployed_at
                \/ meta[i].deployed_at = meta[j].deployed_at /\ i >= j

\* snapshot_etc(slot_id): the archives afterwards
snapshot_etc(slot_id, files, archive) ==
    IF slot_id = NoSlot THEN archive
    ELSE [archive EXCEPT ![slot_id] = files]

\* restore_etc(slot_id): the /etc files afterwards
restore_etc(slot_id, files, archive) ==
    IF archive[slot_id] = 0 THEN files ELSE archive[slot_id]

\* a rollback that swaps the symlink and leaves /etc as it is
do_rollback_no_restore(target_slot, files, archive) ==
    [current |-> target_slot, etc_files |-> files]

\* _do_rollback(): swap_symlink(target_slot), then restore_etc(target_slot)
do_rollback(target_slot, files, archive) ==
    [current |-> target_slot, etc_files |-> restore_etc(target_slot, files, archive)]

\* datetime.now(): later than every deployed_at on disk
next_deployed_at ==
    1 + CHOOSE n \in {slot_meta[i].deployed_at : i \in Slots} :
            \A i \in Slots : slot_meta[i].deployed_at <= n

\* run_update() phases 1 and 2: the slots are determined and the /etc files
\* of the active slot are archived
UpdatePrepare ==
    /\ runner.pc = "idle"
    /\ runner.runs < MaxRuns
    /\ runner' = [runner EXCEPT !.pc = "bootstrap",
                                !.runs = @ + 1,
                                !.active_slot = current,
                                !.target_slot = get_oldest_slot(current, slot_meta),
                                !.swapped = FALSE,
                                !.result = "None"]
    /\ etc_archive' = snapshot_etc(current, etc_files, etc_archive)
    /\ UNCHANGED <<notUpdateVars, current, slot_meta, etc_files>>

\* run_update() phase 3: the bootstrap script deploys into the target slot
\* and may rewrite the /etc files; a failed bootstrap ends the run
UpdateBootstrap(success, rewrites) ==
    /\ runner.pc = "bootstrap"
    /\ etc_files' = IF rewrites THEN etc_files + 1 ELSE etc_files
    /\ runner' = IF success THEN [runner EXCEPT !.pc = "activate"]
                  ELSE [runner EXCEPT !.pc = "done", !.result = "bootstrap_error"]
    /\ UNCHANGED <<notUpdateVars, current, slot_meta, etc_archive>>

\* run_update() phase 4: set_slot_meta() and swap_symlink()
UpdateActivate ==
    /\ runner.pc = "activate"
    /\ slot_meta' = [slot_meta EXCEPT ![runner.target_slot] = DeployedMeta(next_deployed_at)]
    /\ current' = runner.target_slot
    /\ runner' = [runner EXCEPT !.pc = "health_check", !.swapped = TRUE]
    /\ UNCHANGED <<notUpdateVars, etc_files, etc_archive>>

\* run_update() phases 5 and 6: the health checks, and the rollback to the
\* slot that was active when one of them failed
UpdateHealthCheck(passed) ==
    /\ runner.pc = "health_check"
    /\ IF passed
       THEN /\ runner' = [runner EXCEPT !.pc = "done", !.result = "success"]
            /\ UNCHANGED <<current, etc_files>>
       ELSE IF runner.active_slot # NoSlot
       THEN /\ runner' = [runner EXCEPT !.pc = "done", !.result = "rolled_back"]
            /\ current' = do_rollback(runner.active_slot, etc_files, etc_archive).current
            /\ etc_files' = do_rollback(runner.active_slot, etc_files, etc_archive).etc_files
       ELSE /\ runner' = [runner EXCEPT !.pc = "done",
                                        !.result = "health_check_failed_no_rollback_target"]
            /\ UNCHANGED <<current, etc_files>>
    /\ UNCHANGED <<notUpdateVars, slot_meta, etc_archive>>

\* run_rollback(): the manual rollback to the latest other slot
RunRollback ==
    /\ runner.pc = "idle"
    /\ runner.runs < MaxRuns
    /\ LET target == get_rollback_slot(current, slot_meta)
           archived == snapshot_etc(current, etc_files, etc_archive)
       IN  IF target = NoSlot
           THEN /\ runner' = [runner EXCEPT !.pc = "done", !.runs = @ + 1,
                                            !.active_slot = current,
                                            !.result = "no_rollback_target"]
                /\ UNCHANGED <<current, etc_files, etc_archive>>
           ELSE /\ runner' = [runner EXCEPT !.pc = "done", !.runs = @ + 1,
                                            !.active_slot = current,
                                            !.target_slot = target,
                                            !.result = "rollback"]
                /\ etc_archive' = archived
                /\ current' = do_rollback(target, etc_files, archived).current
                /\ etc_files' = do_rollback(target, etc_files, archived).etc_files
    /\ UNCHANGED <<notUpdateVars, slot_meta>>

\* main(): the result is published and the process ends after the grace
\* period; the next run is a new process
RunnerExit ==
    /\ runner.pc = "done"
    /\ runner' = [IdleRunner EXCEPT !.runs = runner.runs]
    /\ UNCHANGED <<notUpdateVars, current, slot_meta, etc_files, etc_archive>>

\* a fresh slot root: no symlink, no metadata, no archive
UpdateIdle ==
    /\ current = NoSlot
    /\ slot_meta = [i \in Slots |-> EmptyMeta]
    /\ etc_files = 1
    /\ etc_archive = [i \in Slots |-> 0]
    /\ runner = IdleRunner

\* the slot layouts a run can find on disk
SlotLayouts ==
    [Slots -> {EmptyMeta} \cup {DeployedMeta(at) : at \in 1..MaxDeployedAt}]

UpdateLayout ==
    /\ current \in Slots \cup {NoSlot}
    /\ slot_meta \in SlotLayouts
    /\ etc_files = 1
    /\ etc_archive = [i \in Slots |-> 0]
    /\ runner = IdleRunner

UpdateNext ==
    \/ UpdatePrepare
    \/ \E success, rewrites \in BOOLEAN : UpdateBootstrap(success, rewrites)
    \/ UpdateActivate
    \/ \E passed \in BOOLEAN : UpdateHealthCheck(passed)
    \/ RunRollback
    \/ RunnerExit

(***************************************************************************)
(* The BLE service: auto-reconnect (ble_service/src/main.py)               *)
(*                                                                         *)
(* The adapter (ble_adapter.py) is used through connect(), disconnect(),   *)
(* is_connected, bus and the disconnect callback: connect() opens a new    *)
(* bus handle and succeeds when the radio is reachable.  link is "lost"    *)
(* after an unexpected disconnect and "disconnected" otherwise when the    *)
(* adapter is not connected.                                               *)
(***************************************************************************)
\* delays = [5, 10, 20, 60]
delays == <<5, 10, 20, 60>>

NoTask == [pc |-> "none", attempt |-> 0, delay |-> 0, cancelled_at |-> "none",
           outcome |-> "none"]

\* ble_adapter.is_connected
is_connected == link = "connected"

\* BLEAdapter.connect(): the bus handle it connects with; a handle is
\* opened when the adapter holds none
connect_bus(held) == IF held = 0 THEN ble_events.buses + 1 ELSE held

\* a reconnect that keeps the stale bus handle
stale_bus_kept(held) == held

\* _auto_reconnect(): ble_adapter.bus.disconnect(); ble_adapter.bus = None
stale_bus_dropped(held) == 0

\* _reconnect_task is None or _reconnect_task.done()
task_done(task) == task.pc \in {"none", "done"}

\* the for loop of _auto_reconnect() at the head of attempt n: the user
\* flag is checked, then the task sleeps for the attempt's delay
ladder_attempt(task, n) ==
    IF n > Len(delays)
    THEN [task EXCEPT !.pc = "done", !.outcome = "exhausted"]
    ELSE IF user_disconnected
    THEN [task EXCEPT !.pc = "done", !.outcome = "user"]
    ELSE [task EXCEPT !.pc = "sleeping", !.attempt = n, !.delay = delays[n]]

\* a cancel() that leaves the task as it is
cancel_nothing(task) == task

\* _reconnect_task.cancel(); _reconnect_task = None: the task ends at the
\* await it is suspended in
cancel_task(task) ==
    IF task_done(task) THEN task
    ELSE [task EXCEPT !.pc = "none", !.cancelled_at = task.pc, !.outcome = "cancelled"]

\* connect(): the request of the user to connect to the radio
UserConnect ==
    /\ ble_events.requests < MaxRequests
    /\ ~is_connected
    /\ reconnect_task.pc # "connecting"
    /\ ble_events' = [ble_events EXCEPT !.requests = @ + 1,
                                        !.buses = IF bus = 0 THEN @ + 1 ELSE @]
    /\ user_disconnected' = FALSE
    /\ bus' = connect_bus(bus)
    /\ IF radio_up
       THEN /\ link' = "connected"
            /\ last_connected_mac' = "mac"
       ELSE UNCHANGED <<link, last_connected_mac>>
    /\ UNCHANGED <<notBleVars, radio_up, reconnect_task, connect_calls>>

\* disconnect(): the request of the user to disconnect
UserDisconnect ==
    /\ ble_events.requests < MaxRequests
    /\ ble_events' = [ble_events EXCEPT !.requests = @ + 1]
    /\ user_disconnected' = TRUE
    /\ reconnect_task' = cancel_task(reconnect_task)
    /\ link' = "disconnected"
    /\ bus' = IF link = "disconnected" /\ reconnect_task.pc # "connecting" THEN bus ELSE 0
    /\ UNCHANGED <<notBleVars, radio_up, last_connected_mac, connect_calls>>

\* the link is lost and the adapter calls _on_adapter_disconnect()
AdapterDisconnect ==
    /\ is_connected
    /\ ble_events.drops < MaxDrops
    /\ ble_events' = [ble_events EXCEPT !.drops = @ + 1]
    /\ link' = "lost"
    /\ reconnect_task' =
            IF user_disconnected \/ ~task_done(reconnect_task) THEN reconnect_task
            ELSE [NoTask EXCEPT !.pc = "created"]
    /\ UNCHANGED <<notBleVars, bus, radio_up, user_disconnected, last_connected_mac,
                   connect_calls>>

\* _auto_reconnect() from its start to the first sleep
LadderBegin ==
    /\ reconnect_task.pc = "created"
    /\ reconnect_task' =
            IF last_connected_mac = "None"
            THEN [reconnect_task EXCEPT !.pc = "done", !.outcome = "no mac"]
            ELSE ladder_attempt(reconnect_task, 1)
    /\ UNCHANGED <<notBleVars, link, bus, radio_up, user_disconnected,
                   last_connected_mac, connect_calls, ble_events>>

\* _auto_reconnect() after a sleep: the checks, the stale bus is dropped
\* and ble_adapter.connect(mac) is called
LadderWake ==
    /\ reconnect_task.pc = "sleeping"
    /\ IF user_disconnected
       THEN /\ reconnect_task' = [reconnect_task EXCEPT !.pc = "done", !.outcome = "user"]
            /\ UNCHANGED <<bus, connect_calls, ble_events>>
       ELSE IF is_connected
       THEN /\ reconnect_task' = [reconnect_task EXCEPT !.pc = "done",
                                                        !.outcome = "already"]
            /\ UNCHANGED <<bus, connect_calls, ble_events>>
       ELSE /\ reconnect_task' = [reconnect_task EXCEPT !.pc = "connecting"]
            /\ bus' = connect_bus(stale_bus_dropped(bus))
            /\ ble_events' = [ble_events EXCEPT
                                !.buses = IF stale_bus_dropped(bus) = 0 THEN @ + 1 ELSE @]
            /\ connect_calls' = Append(connect_calls,
                    [attempt |-> reconnect_task.attempt,
                     delay |-> reconnect_task.delay,
                     stale_bus |-> bus,
                     bus |-> connect_bus(stale_bus_dropped(bus))])
    /\ UNCHANGED <<notBleVars, link, radio_up, user_disconnected, last_connected_mac>>

\* _auto_reconnect() when ble_adapter.connect(mac) returns
LadderConnected ==
    /\ reconnect_task.pc = "connecting"
    /\ IF radio_up
       THEN /\ link' = "connected"
            /\ reconnect_task' = [reconnect_task EXCEPT !.pc = "done",
                                                        !.outcome = "reconnected"]
       ELSE /\ reconnect_task' = ladder_attempt(reconnect_task, reconnect_task.attempt + 1)
            /\ UNCHANGED link
    /\ UNCHANGED <<notBleVars, bus, radio_up, user_disconnected, last_connected_mac,
                   connect_calls, ble_events>>

\* the radio goes out of reach
RadioLost ==
    /\ radio_up
    /\ ble_events.radio < MaxRadioChanges
    /\ radio_up' = FALSE
    /\ ble_events' = [ble_events EXCEPT !.radio = @ + 1]
    /\ UNCHANGED <<notBleVars, link, bus, user_disconnected, last_connected_mac,
                   reconnect_task, connect_calls>>

\* the radio is reachable again
RadioBack ==
    /\ ~radio_up
    /\ radio_up' = TRUE
    /\ UNCHANGED <<notBleVars, link, bus, user_disconnected, last_connected_mac,
                   reconnect_task, connect_calls, ble_events>>

BleIdle ==
    /\ link = "disconnected"
    /\ bus = 0
    /\ radio_up = TRUE
    /\ user_disconnected = FALSE
    /\ last_connected_mac = "None"
    /\ reconnect_task = NoTask
    /\ connect_calls = <<>>
    /\ ble_events = [drops |-> 0, requests |-> 0, radio |-> 0, buses |-> 0]

BleNext ==
    \/ UserConnect
    \/ UserDisconnect
    \/ AdapterDisconnect
    \/ LadderBegin
    \/ LadderWake
    \/ LadderConnected
    \/ RadioLost
    \/ RadioBack

(***************************************************************************)
(* The shutdown of the gateway process (main.py, main())                   *)
(*                                                                         *)
(* The four steps run one after the other, each under asyncio.wait_for.    *)
(* A step returns in time, is cut off at its timeout, or raises another    *)
(* exception.                                                              *)
(***************************************************************************)
\* the steps in the order of main(), and the timeout of each wait_for
ShutdownSteps == <<"beacons", "ble", "udp", "sse">>

step_timeout == [beacons |-> 5, ble |-> 5, udp |-> 3, sse |-> 3]

\* (now - _first_signal_time) < 5.0
duplicate_window == 5

StepOutcomes == {"done", "timeout", "error"}

\* the step after step number n, or the exit of the process
after_step(n) == IF n < Len(ShutdownSteps) THEN ShutdownSteps[n + 1] ELSE "exited"

StepNumber(step) == CHOOSE n \in 1..Len(ShutdownSteps) : ShutdownSteps[n] = step

InStep == proc.pc \in {ShutdownSteps[n] : n \in 1..Len(ShutdownSteps)}

\* the process has ended through os._exit()
Exited == proc.pc \in {"exited", "forced"}

\* handle_shutdown(): what it does with a signal
signal_effect(stop_set, first_signal_time, at) ==
    IF ~stop_set THEN "stop"
    ELSE IF first_signal_time # <<>> /\ at - first_signal_time[1] < duplicate_window
    THEN "ignored"
    ELSE "force"

\* handle_shutdown(signum)
HandleShutdown ==
    /\ ~Exited
    /\ Len(signals) < MaxSignals
    /\ LET effect == signal_effect(proc.stop_set, proc.first_signal_time, monotonic)
       IN  /\ signals' = Append(signals, [at |-> monotonic, effect |-> effect])
           /\ proc' = CASE effect = "stop" ->
                             [proc EXCEPT !.stop_set = TRUE,
                                          !.stop_time = monotonic,
                                          !.first_signal_time = <<monotonic>>]
                         [] effect = "ignored" -> proc
                         [] effect = "force" -> [proc EXCEPT !.pc = "forced"]
    /\ UNCHANGED <<notShutdownVars, monotonic, attempted>>

\* stdin_reader(): q on the console sets the stop event
StdinQuit ==
    /\ proc.pc = "serving"
    /\ ~proc.stop_set
    /\ proc' = [proc EXCEPT !.stop_set = TRUE, !.stop_time = monotonic]
    /\ UNCHANGED <<notShutdownVars, monotonic, signals, attempted>>

\* main() after await stop_event.wait(): the prune task is cancelled and
\* the first step is started
BeginShutdown ==
    /\ proc.pc = "serving"
    /\ proc.stop_set
    /\ proc' = [proc EXCEPT !.pc = ShutdownSteps[1], !.started = monotonic]
    /\ UNCHANGED <<notShutdownVars, monotonic, signals, attempted>>

\* a step ends: only asyncio.TimeoutError is caught, any other exception
\* leaves main(); after the last step the process exits with os._exit(0)
StepEnds(outcome) ==
    /\ InStep
    /\ outcome = "timeout" => monotonic - proc.started = step_timeout[proc.pc]
    /\ attempted' = Append(attempted, [step |-> proc.pc, outcome |-> outcome,
                                       took |-> monotonic - proc.started])
    /\ proc' = IF outcome = "error" THEN [proc EXCEPT !.pc = "aborted"]
                ELSE [proc EXCEPT !.pc = after_step(StepNumber(proc.pc)),
                                  !.started = monotonic]
    /\ UNCHANGED <<notShutdownVars, monotonic, signals>>

\* a second passes; wait_for lets no step run beyond its timeout, and
\* main() goes on at once when the stop event is set
ClockTick ==
    /\ ~Exited
    /\ monotonic < MaxUptime
    /\ proc.pc = "serving" => ~proc.stop_set /\ monotonic < MaxServing
    /\ InStep => monotonic - proc.started < step_timeout[proc.pc]
    /\ monotonic' = monotonic + 1
    /\ UNCHANGED <<notShutdownVars, proc, signals, attempted>>

ShutdownIdle ==
    /\ monotonic = 0
    /\ proc = [pc |-> "serving", stop_set |-> FALSE, stop_time |-> 0,
               first_signal_time |-> <<>>, started |-> 0]
    /\ signals = <<>>
    /\ attempted = <<>>

ShutdownNext ==
    \/ HandleShutdown
    \/ StdinQuit
    \/ BeginShutdown
    \/ \E outcome \in StepOutcomes : StepEnds(outcome)
    \/ ClockTick

\* the storage handler stores a sample as long as the process runs
ServeSample(callsign, timestamp_ms) ==
    /\ proc.pc \notin {"exited", "forced", "aborted"}
    /\ AcceptSample(callsign, timestamp_ms)

\* the write of the completed buckets, as long as the process runs
ServeFlush ==
    /\ proc.pc \notin {"exited", "forced", "aborted"}
    /\ FlushCompleted

\* the gateway stores samples and is shut down; the shutdown steps call
\* neither _flush_all_accumulators() nor any other method of the storage
StopNext ==
    \/ \E c \in SignalCallsigns, t \in SignalTimestamps : ServeSample(c, t)
    \/ ServeFlush
    \/ HandleShutdown
    \/ StdinQuit
    \/ BeginShutdown
    \/ \E outcome \in StepOutcomes : StepEnds(outcome)

(***************************************************************************)
(* The SSE endpoint /events (sse_handler.py)                               *)
(*                                                                         *)
(* One client: its registration, the initial frames of its generator, its  *)
(* queue and the broadcasts.  The storage handler is present, as main()    *)
(* always creates it.  A frame carries the name of its message; a          *)
(* broadcast event carries also its number and the position of the         *)
(* generator when it was queued.                                           *)
(***************************************************************************)
\* a frame the generator makes itself
Frame(name) == [frame |-> name, event |-> 0, queued_in |-> "generator"]

\* the initial frames in the order in which event_generator() yields them
InitialOrder ==
    <<"connected", "smart_initial", "summary", "read_counts", "hidden_destinations",
      "blocked_texts", "mheard_sidebar", "wx_sidebar", "ble_status", "ble_register">>

\* the frames that are sent only when their data is not empty
PersistedFrames ==
    {"read_counts", "hidden_destinations", "blocked_texts", "mheard_sidebar", "wx_sidebar"}

\* the persisted data found: nothing, everything, or some of it
PersistedData ==
    {{}, PersistedFrames, {"hidden_destinations"}, {"read_counts", "wx_sidebar"}}

\* get_protocol("ble_client") is None, or the state of its status
BleStates == {"None", "disconnected", "connected"}

RECURSIVE Registers(_)
Registers(n) == IF n = 0 THEN <<>> ELSE Append(Registers(n - 1), "ble_register")

\* the frames event_generator() yields before its queue loop when no call
\* raises
initial_frames(persisted, ble_state, registers) ==
    LET kept == [n \in 1..Len(InitialOrder) |->
                    CASE InitialOrder[n] \in PersistedFrames -> InitialOrder[n] \in persisted
                      [] InitialOrder[n] = "ble_status" -> ble_state # "None"
                      [] InitialOrder[n] = "ble_register" -> FALSE
                      [] OTHER -> TRUE]
    IN  SelectSeq(InitialOrder, LAMBDA f : kept[CHOOSE n \in 1..Len(InitialOrder) :
                                                    InitialOrder[n] = f])
        \o (IF ble_state = "connected" THEN Registers(registers) ELSE <<>>)

ClosedClient == [pc |-> "closed", connected |-> FALSE, pending |-> <<>>,
                 queue |-> <<>>, pings |-> 0]

\* a queue that hands out the newest entry first
queue_put_front(queue, data) == <<data>> \o queue

\* SSEClient.send(): asyncio.Queue.put()
queue_put(queue, data) == Append(queue, data)

\* sse_endpoint(): the client is created and registered, and the generator
\* yields the connected frame
OpenEvents(persisted, ble_state, registers) ==
    /\ sse_client.pc = "closed"
    /\ received = <<>>
    /\ sse_client' = [ClosedClient EXCEPT
                        !.pc = "initial",
                        !.connected = TRUE,
                        !.pending = Tail(initial_frames(persisted, ble_state, registers))]
    /\ sse_clients' = {"client"}
    /\ received' = <<Frame(Head(initial_frames(persisted, ble_state, registers)))>>
    /\ UNCHANGED <<notSseVars, broadcasts>>

\* event_generator(): the next initial frame is loaded and yielded, and
\* after the last one the queue loop is entered
SendInitial ==
    /\ sse_client.pc = "initial"
    /\ IF sse_client.pending = <<>>
       THEN /\ sse_client' = [sse_client EXCEPT !.pc = "live"]
            /\ UNCHANGED received
       ELSE /\ received' = Append(received, Frame(Head(sse_client.pending)))
            /\ sse_client' = [sse_client EXCEPT !.pending = Tail(@)]
    /\ UNCHANGED <<notSseVars, sse_clients, broadcasts>>

\* event_generator(): a call that loads initial data raises; the error is
\* logged and the queue loop is entered
InitialFails ==
    /\ sse_client.pc = "initial"
    /\ sse_client.pending # <<>>
    /\ sse_client' = [sse_client EXCEPT !.pc = "live", !.pending = <<>>]
    /\ UNCHANGED <<notSseVars, sse_clients, received, broadcasts>>

\* broadcast_message(): the message is queued for every registered client
BroadcastMessage ==
    /\ broadcasts < MaxBroadcasts
    /\ broadcasts' = broadcasts + 1
    /\ sse_client' =
            IF "client" \in sse_clients /\ sse_client.connected
            THEN [sse_client EXCEPT !.queue = queue_put(@, [frame |-> "event",
                                                           event |-> broadcasts + 1,
                                                           queued_in |-> sse_client.pc])]
            ELSE sse_client
    /\ UNCHANGED <<notSseVars, sse_clients, received>>

\* the queue loop of event_generator(): a queued message is yielded
YieldQueued ==
    /\ sse_client.pc = "live"
    /\ sse_client.queue # <<>>
    /\ received' = Append(received, Head(sse_client.queue))
    /\ sse_client' = [sse_client EXCEPT !.queue = Tail(@)]
    /\ UNCHANGED <<notSseVars, sse_clients, broadcasts>>

\* the queue loop of event_generator(): 30 s without a message, a ping
YieldPing ==
    /\ sse_client.pc = "live"
    /\ sse_client.queue = <<>>
    /\ sse_client.pings < MaxPings
    /\ received' = Append(received, Frame("ping"))
    /\ sse_client' = [sse_client EXCEPT !.pings = @ + 1]
    /\ UNCHANGED <<notSseVars, sse_clients, broadcasts>>

\* the request is disconnected: the generator ends and the client is
\* removed from the clients
CloseEvents ==
    /\ sse_client.pc = "live"
    /\ sse_client' = [sse_client EXCEPT !.pc = "gone", !.connected = FALSE]
    /\ sse_clients' = {}
    /\ UNCHANGED <<notSseVars, received, broadcasts>>

SseIdle ==
    /\ sse_client = ClosedClient
    /\ sse_clients = {}
    /\ received = <<>>
    /\ broadcasts = 0

SseNext ==
    \/ \E persisted \in PersistedData, ble_state \in BleStates,
          registers \in 0..MaxRegisters : OpenEvents(persisted, ble_state, registers)
    \/ SendInitial
    \/ InitialFails
    \/ BroadcastMessage
    \/ YieldQueued
    \/ YieldPing
    \/ CloseEvents

(***************************************************************************)
(* ResponseMixin: chunking and sending of a response                       *)
(* (mcproxy/commands/response.py)                                          *)
(*                                                                         *)
(* A response text is a sequence of characters; the character "°" takes    *)
(* two bytes in UTF-8, every other character of the model one.             *)
(***************************************************************************)
MAX_RESPONSE_LENGTH == 140

MAX_CHUNKS == 3

\* asyncio.sleep(12) between two chunks
chunk_delay == 12

\* len(s.encode("utf-8"))
utf8_len(s) == Len(s) + Cardinality({i \in 1..Len(s) : s[i] = "°"})

\* s[:n]
first_n(s, n) == SubSeq(s, 1, IF n < Len(s) THEN n ELSE Len(s))

\* s.find(sep) + 1: the first position at which sep occurs in s, or 0
find(s, sep) ==
    LET hits == {i \in 1..(Len(s) - Len(sep) + 1) : SubSeq(s, i, i + Len(sep) - 1) = sep}
    IN  IF hits = {} THEN 0 ELSE CHOOSE i \in hits : \A j \in hits : i <= j

RECURSIVE split(_, _)
\* s.split(sep)
split(s, sep) ==
    LET i == find(s, sep)
    IN  IF i = 0
        THEN <<s>>
        ELSE <<SubSeq(s, 1, i - 1)>> \o split(SubSeq(s, i + Len(sep), Len(s)), sep)

CommaSep == <<",", " ">>

BarSep == <<" ", "|", " ">>

RECURSIVE pack_parts(_, _, _)
\* _chunk_response(), the loop over the parts: parts are joined with " | "
\* as long as the joined text fits
pack_parts(parts, cur, chunks) ==
    IF parts = <<>>
    THEN IF cur # <<>> THEN Append(chunks, cur) ELSE chunks
    ELSE LET test == cur \o (IF cur # <<>> THEN BarSep ELSE <<>>) \o Head(parts)
         IN  IF utf8_len(test) <= MAX_RESPONSE_LENGTH
             THEN pack_parts(Tail(parts), test, chunks)
             ELSE pack_parts(Tail(parts), Head(parts),
                             IF cur # <<>> THEN Append(chunks, cur) ELSE chunks)

\* _chunk_response(), the fallback: slices of max_bytes characters
slices(s) ==
    [k \in 1..((Len(s) + MAX_RESPONSE_LENGTH - 1) \div MAX_RESPONSE_LENGTH) |->
        first_n(SubSeq(s, (k - 1) * MAX_RESPONSE_LENGTH + 1, Len(s)), MAX_RESPONSE_LENGTH)]

\* _chunk_response()
chunk_response(response) ==
    IF utf8_len(response) <= MAX_RESPONSE_LENGTH
    THEN <<response>>
    ELSE first_n(IF find(response, CommaSep) # 0 /\ Len(split(response, CommaSep)) = 2
                 THEN split(response, CommaSep)
                 ELSE IF find(response, BarSep) # 0
                      THEN pack_parts(split(response, BarSep), <<>>, <<>>)
                      ELSE slices(response),
                 MAX_CHUNKS)

DigitOf == <<"1", "2", "3">>

\* f"({i + 1}/{min(len(chunks), MAX_CHUNKS)}) ", i counted from 1 here
chunk_header(i, n) ==
    <<"(", DigitOf[i], "/", DigitOf[IF n < MAX_CHUNKS THEN n ELSE MAX_CHUNKS], ")", " ">>

\* send_response(): the text of the i-th message
chunk_message(chunks, i) ==
    IF Len(chunks) > 1 THEN chunk_header(i, Len(chunks)) \o chunks[i] ELSE chunks[i]

\* a send_response() that ignores whom the response is for
response_topic_by_transport(recipient, src_type) ==
    IF src_type \in {"ble", "ble_remote"}
    THEN "ble_message"
    ELSE IF src_type \in {"udp", "node", "lora"} THEN "udp_message" ELSE ""

\* send_response(): the topic a chunk is published to, "" for none
response_topic(recipient, src_type) ==
    IF upper(recipient) = MyCallsign
    THEN "websocket_message"
    ELSE IF src_type \in {"ble", "ble_remote"}
         THEN "ble_message"
         ELSE IF src_type \in {"udp", "node", "lora"} THEN "udp_message" ELSE ""

\* the texts of the model: up to MaxParts parts of 60 or 141 characters,
\* joined with ", " or " | "
Repeat(c, n) == [i \in 1..n |-> c]

PartTexts == {Repeat(c, n) : c \in {"a", "°"}, n \in {60, 141}}

RECURSIVE Joined(_, _)
Joined(k, sep) ==
    IF k = 1
    THEN PartTexts
    ELSE {t \o sep \o p : t \in Joined(k - 1, sep), p \in {Repeat("a", 60), Repeat("a", 141)}}

Responses ==
    {<<>>} \cup UNION {Joined(k, sep) : k \in 1..MaxParts, sep \in {CommaSep, BarSep}}

\* recipient and src_type of the calls
ResponseRoutes ==
    {<<MyCallsign, "udp">>, <<MyCallsign, "ble">>, <<OtherCallsign, "udp">>,
     <<OtherCallsign, "ble_remote">>, <<OtherCallsign, "internal">>}

IdleResponder == [pc |-> "idle", chunks |-> <<>>, i |-> 0, recipient |-> <<>>,
                  src_type |-> "", clock |-> 0, published |-> <<>>]

\* send_response() is called: nothing for an empty response, else the text
\* is chunked and the loop over the chunks begins
SendResponse(response, recipient, src_type) ==
    /\ responder.pc = "idle"
    /\ responder.published = <<>>
    /\ responder' = IF response = <<>>
                    THEN [responder EXCEPT !.pc = "returned"]
                    ELSE [responder EXCEPT !.pc = "sending",
                                           !.chunks = chunk_response(response),
                                           !.i = 1,
                                           !.recipient = recipient,
                                           !.src_type = src_type]
    /\ UNCHANGED notResponderVars

\* send_response(), one pass of the loop: the chunk is published, and the
\* sleep begins unless it was the last chunk
SendChunk ==
    /\ responder.pc = "sending"
    /\ LET topic == response_topic(responder.recipient, responder.src_type)
           sent == [topic |-> topic,
                    dst |-> responder.recipient,
                    msg |-> chunk_message(responder.chunks, responder.i),
                    at |-> responder.clock]
       IN  responder' =
              [responder EXCEPT
                  !.published = IF topic = "" THEN @ ELSE Append(@, sent),
                  !.pc = IF responder.i < Len(responder.chunks) THEN "sleeping" ELSE "returned",
                  !.i = IF responder.i < Len(responder.chunks) THEN @ + 1 ELSE @]
    /\ UNCHANGED notResponderVars

\* send_response(): the sleep between two chunks ends
ChunkSleepEnds ==
    /\ responder.pc = "sleeping"
    /\ responder' = [responder EXCEPT !.pc = "sending", !.clock = @ + chunk_delay]
    /\ UNCHANGED notResponderVars

\* the responses of an executed command: one chunk, and two chunks
ReplyTexts == {Repeat("a", 60), Repeat("a", 141) \o BarSep \o Repeat("a", 60)}

\* _message_handler(), lines 81-128: the command is executed and its
\* response is sent to the response target with the src_type of the message
ReplyBegin(response) ==
    /\ ob.pc = "decided"
    /\ ob.decision.execute
    /\ responder.pc = "idle"
    /\ responder' = [responder EXCEPT
                        !.pc = "sending",
                        !.chunks = chunk_response(response),
                        !.i = 1,
                        !.recipient = ob.reply_to,
                        !.src_type = IF ob.topic = "mesh_message"
                                     THEN "lora"
                                     ELSE ob.inbox[1].src_type]
    /\ UNCHANGED notResponderVars

ResponderIdle == responder = IdleResponder

\* destinations of the answered messages: my callsign as written by a
\* client, another station, a group
ReplyDsts == {MyCallsign, <<"d","k","5","e","n","-","1">>, OtherCallsign, <<"2","0">>}

\* a message enters, is routed and decided, and the response is sent
ReplyNext ==
    \/ /\ ob.pc = "idle"
       /\ \E t \in {"udp_message", "ble_message"}, src \in InSrcs, dst \in ReplyDsts,
             msg \in InMsgs : UiSend(t, src, dst, msg)
    \/ RouteOutbound
    \/ /\ ob.pc = "idle"
       /\ \E src \in InSrcs \ {<<>>}, dst \in ReplyDsts, msg \in InMsgs :
             MeshReceive(src, dst, msg)
    \/ CommandHandlerReceive
    \/ \E response \in ReplyTexts : ReplyBegin(response)
    \/ SendChunk
    \/ ChunkSleepEnds

ResponseNext ==
    \/ \E response \in Responses, route \in ResponseRoutes :
          SendResponse(response, route[1], route[2])
    \/ SendChunk
    \/ ChunkSleepEnds

(***************************************************************************)
(* SQLiteStorage.initialize(): schema migrations (sqlite_storage.py)       *)
(*                                                                         *)
(* The database file survives a crash; what was not committed is rolled    *)
(* back.  The connection is in the default transaction mode of sqlite3: a  *)
(* DDL statement and every statement of executescript() is committed on    *)
(* its own, an INSERT, UPDATE or DELETE opens a transaction that the       *)
(* commit of _set_schema_version() ends.  One unit of a step is what is    *)
(* committed together.  The file records the format of table messages,     *)
(* the tables holding the stored rows, the columns of station_positions    *)
(* that the migrations rename, and the other things made by the steps.     *)
(***************************************************************************)
LatestVersion == 13

Steps == 2..LatestVersion

\* the units of each step, in the order of _init_db(); the units
\* backfilled, purged and alt_reset are committed with the new version
StepUnits ==
    [k \in Steps |->
        CASE k = 2 -> <<"v2_tables", "backfilled">>
          [] k = 3 -> <<"drop_messages_new", "create_messages_new", "copy_messages",
                        "drop_messages", "rename_messages_new", "message_indexes",
                        "set_version">>
          [] k = 4 -> <<"message_columns", "station_columns", "telemetry", "v4_indexes",
                        "set_version">>
          [] k = 5 -> <<"read_columns", "rename_long", "rename_long_dir", "set_version">>
          [] k = 6 -> <<"telemetry_alt", "set_version">>
          [] k = 7 -> <<"read_counts", "set_version">>
          [] k = 8 -> <<"purged">>
          [] k = 9 -> <<"alt_reset">>
          [] k = 10 -> <<"hidden_destinations", "set_version">>
          [] k = 11 -> <<"blocked_texts", "set_version">>
          [] k = 12 -> <<"mheard_sidebar", "set_version">>
          [] OTHER -> <<"wx_sidebar", "set_version">>]

\* what a step leaves behind besides the tables named in the file record
StepFacts ==
    [k \in Steps |->
        CASE k = 2 -> {"v2_tables", "backfilled"}
          [] k = 3 -> {"message_indexes"}
          [] k = 4 -> {"message_columns", "station_columns", "telemetry", "v4_indexes"}
          [] k = 5 -> {}
          [] k = 6 -> {"telemetry_alt"}
          [] k = 7 -> {"read_counts"}
          [] k = 8 -> {"purged"}
          [] k = 9 -> {"alt_reset"}
          [] k = 10 -> {"hidden_destinations"}
          [] k = 11 -> {"blocked_texts"}
          [] k = 12 -> {"mheard_sidebar"}
          [] OTHER -> {"wx_sidebar"}]

WithVersion == {"backfilled", "purged", "alt_reset"}

AllFacts == UNION {StepFacts[k] : k \in Steps}

\* a database as an installation of schema version v left it: databases
\* of versions 2 to 4 have the columns long and long_dir
LegacyDb(v) ==
    [version |-> v,
     messages |-> IF v = 0 THEN "absent" ELSE IF v < 3 THEN "v1" ELSE "v3",
     messages_new |-> FALSE,
     rows_in |-> IF v = 0 THEN {} ELSE {"messages"},
     columns |-> IF v < 2 THEN {} ELSE {"long", "long_dir"},
     facts |-> UNION {StepFacts[k] : k \in 2..v}]

\* conn.executescript(CREATE_SCHEMA_SQL): CREATE TABLE IF NOT EXISTS
create_schema(db) ==
    [db EXCEPT !.messages = IF @ = "absent" THEN "v1" ELSE @]

\* one unit of step k, as the statements of the code change the file;
\* seen_long is the result of the PRAGMA table_info of step 5
run_unit(db, k, unit, seen_long) ==
    LET done == IF unit \in AllFacts THEN [db EXCEPT !.facts = @ \cup {unit}] ELSE db
    IN  CASE unit = "v2_tables" ->
                [done EXCEPT !.columns = IF @ = {} THEN {"lon", "lon_dir"} ELSE @]
          [] unit \in WithVersion -> [done EXCEPT !.version = k]
          [] unit = "set_version" -> [db EXCEPT !.version = k]
          [] unit = "drop_messages_new" ->
                [db EXCEPT !.messages_new = FALSE, !.rows_in = @ \ {"messages_new"}]
          [] unit = "create_messages_new" -> [db EXCEPT !.messages_new = TRUE]
          [] unit = "copy_messages" ->
                [db EXCEPT !.rows_in = IF "messages" \in @ THEN @ \cup {"messages_new"} ELSE @]
          [] unit = "drop_messages" ->
                [db EXCEPT !.messages = "absent", !.rows_in = @ \ {"messages"}]
          [] unit = "rename_messages_new" ->
                [db EXCEPT !.messages = "v3", !.messages_new = FALSE,
                           !.rows_in = IF "messages_new" \in @ THEN {"messages"} ELSE {}]
          [] unit = "rename_long" ->
                IF seen_long THEN [db EXCEPT !.columns = (@ \ {"long"}) \cup {"lon"}] ELSE db
          [] unit = "rename_long_dir" ->
                IF seen_long THEN [db EXCEPT !.columns = (@ \ {"long_dir"}) \cup {"lon_dir"}]
                ELSE db
          [] OTHER -> done

\* the statement of a unit raises: a table or a column it names is missing
\* or exists already
unit_raises(db, unit, seen_long) ==
    CASE unit = "create_messages_new" -> db.messages_new
      [] unit = "drop_messages" -> db.messages = "absent"
      [] unit = "rename_messages_new" -> db.messages # "absent" \/ ~db.messages_new
      [] unit = "rename_long" -> seen_long /\ "long" \notin db.columns
      [] unit = "rename_long_dir" -> seen_long /\ "long_dir" \notin db.columns
      [] OTHER -> FALSE

DownProcess(db) ==
    [pc |-> "down", db |-> db, current_version |-> 0, step |-> 0, unit |-> 0,
     seen_long |-> FALSE, crashes |-> 0]

\* the step after step k that `if current_version < k` lets run
next_step(m, k) ==
    IF k >= LatestVersion
    THEN [m EXCEPT !.pc = "initialized", !.step = 0, !.unit = 0]
    ELSE [m EXCEPT !.step = k + 1, !.unit = 1]

\* initialize() is called: the schema script runs, the version is read and
\* the first step with current_version < k is entered
StartInitialize ==
    /\ migration.pc = "down"
    /\ LET db == create_schema(migration.db)
           first == IF db.version < 2 THEN 1 ELSE db.version
       IN  migration' = next_step([migration EXCEPT !.pc = "migrating", !.db = db,
                                                    !.current_version = db.version,
                                                    !.seen_long = FALSE],
                                  first)
    /\ UNCHANGED notMigrationVars

\* the next unit of the step is executed and committed; an exception leaves
\* _init_db() and initialize()
MigrateUnit ==
    /\ migration.pc = "migrating"
    /\ LET k == migration.step
           unit == StepUnits[k][migration.unit]
           seen == IF unit = "read_columns" THEN "long" \in migration.db.columns
                   ELSE migration.seen_long
       IN  IF unit_raises(migration.db, unit, seen)
           THEN migration' = [migration EXCEPT !.pc = "failed"]
           ELSE LET m == [migration EXCEPT !.db = run_unit(@, k, unit, seen),
                                           !.seen_long = seen]
                IN  migration' = IF migration.unit < Len(StepUnits[k])
                                 THEN [m EXCEPT !.unit = @ + 1]
                                 ELSE next_step(m, k)
    /\ UNCHANGED notMigrationVars

\* the process crashes between two units: the file stays as committed
MigrationCrash ==
    /\ migration.pc = "migrating"
    /\ migration.crashes < MaxCrashes
    /\ migration' = [DownProcess(migration.db) EXCEPT !.crashes = migration.crashes + 1]
    /\ UNCHANGED notMigrationVars

MigrationIdle == migration = DownProcess(LegacyDb(0))

MigrationNext ==
    \/ StartInitialize
    \/ MigrateUnit
    \/ MigrationCrash

(***************************************************************************)
(* SQLiteStorage._upsert_station_position (sqlite_storage.py)              *)
(*                                                                         *)
(* The row of one callsign: location (lat and lon, 0 for NULL),            *)
(* position_ts, signal_ts and last_seen, and the position beacons that     *)
(* were stored.                                                            *)
(***************************************************************************)
NoRow == [present |-> FALSE, location |-> 0, position_ts |-> 0, signal_ts |-> 0,
          last_seen |-> 0]

Max(a, b) == IF a >= b THEN a ELSE b

\* the INSERT ... ON CONFLICT of update_type 'position'; the caller passes
\* coordinates that are not NULL, so COALESCE takes the new ones
upsert_position(row, timestamp, location) ==
    IF row.present
    THEN [row EXCEPT !.location = IF location # 0 THEN location ELSE @,
                     !.position_ts = timestamp,
                     !.last_seen = Max(@, timestamp)]
    ELSE [NoRow EXCEPT !.present = TRUE, !.location = location,
                       !.position_ts = timestamp, !.last_seen = timestamp]

\* the INSERT ... ON CONFLICT of update_type 'signal'
upsert_signal(row, timestamp) ==
    IF row.present
    THEN [row EXCEPT !.signal_ts = timestamp, !.last_seen = Max(@, timestamp)]
    ELSE [NoRow EXCEPT !.present = TRUE, !.signal_ts = timestamp, !.last_seen = timestamp]

\* store_message() of a position beacon with coordinates
StorePosition(timestamp, location) ==
    /\ Len(station.beacons) < MaxBeacons
    /\ station' = [row |-> upsert_position(station.row, timestamp, location),
                   beacons |-> Append(station.beacons,
                                      [timestamp |-> timestamp, location |-> location])]
    /\ UNCHANGED notStationVars

\* store_message() of an MHeard beacon
StoreSignal(timestamp) ==
    /\ station.row.signal_ts < timestamp
    /\ station' = [station EXCEPT !.row = upsert_signal(@, timestamp)]
    /\ UNCHANGED notStationVars

StationIdle == station = [row |-> NoRow, beacons |-> <<>>]

StationNext ==
    \/ \E timestamp \in 1..MaxBeaconTime, location \in 1..MaxLocation :
          StorePosition(timestamp, location)
    \/ \E timestamp \in 1..MaxBeaconTime : StoreSignal(timestamp)

(***************************************************************************)
(* BLEClientRemote._request (ble_client_remote.py)                         *)
(*                                                                         *)
(* One call at a time: the number of the attempt, the HTTP requests sent,  *)
(* the 409 answers and the connection errors among their outcomes, the     *)
(* time slept in tenths of a second, and what the caller gets.             *)
(***************************************************************************)
\* retry_delay: float = 1.5, in tenths of a second
retry_delay == 15

\* the values callers give `retries`: connect, the default, the status
\* query at startup
RetriesOfCallers == {0, 2, 4}

\* the HTTP statuses of the BLE service: success, busy, another error
Statuses == {200, 409, 500}

IdleRequest ==
    [pc |-> "idle", retries |-> 0, attempt |-> 0, sent |-> 0, busy |-> 0,
     failures |-> 0, slept |-> 0, result |-> "", calls |-> 0]

should_retry_always(attempt, retries) == TRUE

\* `attempt < retries`, the condition of both retries
should_retry(attempt, retries) == attempt < retries

\* _request() up to its first HTTP request
StartRequest(retries) ==
    /\ request.pc \in {"idle", "returned", "raised"}
    /\ request.calls < MaxCalls
    /\ request' = [IdleRequest EXCEPT !.pc = "sent", !.retries = retries,
                                      !.sent = 1, !.calls = request.calls + 1]
    /\ UNCHANGED notRequestVars

\* the service answers: a 409 is retried after the delay while retries are
\* left, any other status from 400 on raises, and the data is returned
Respond(status) ==
    /\ request.pc = "sent"
    /\ LET counted == IF status = 409 THEN [request EXCEPT !.busy = @ + 1]
                      ELSE request
       IN  request' =
              IF status = 409 /\ should_retry(request.attempt, request.retries)
              THEN [counted EXCEPT !.pc = "sleeping"]
              ELSE IF status >= 400
              THEN [counted EXCEPT !.pc = "raised",
                                   !.result = IF status = 409 THEN "API error (409)"
                                              ELSE "API error"]
              ELSE [counted EXCEPT !.pc = "returned", !.result = "data"]
    /\ UNCHANGED notRequestVars

\* aiohttp.ClientError: the session is reset and the request retried after
\* the delay while retries are left
ConnectionFails ==
    /\ request.pc = "sent"
    /\ request' =
          IF should_retry(request.attempt, request.retries)
          THEN [request EXCEPT !.pc = "sleeping", !.failures = @ + 1]
          ELSE [request EXCEPT !.pc = "raised", !.failures = @ + 1,
                               !.result = "Connection error"]
    /\ UNCHANGED notRequestVars

\* asyncio.sleep(retry_delay) is over: `continue` takes the next attempt of
\* range(1 + retries), and after the last one the loop ends
RetrySleepEnds ==
    /\ request.pc = "sleeping"
    /\ request' =
          IF request.attempt + 1 < 1 + request.retries
          THEN [request EXCEPT !.pc = "sent", !.attempt = @ + 1, !.sent = @ + 1,
                               !.slept = @ + retry_delay]
          ELSE [request EXCEPT !.pc = "raised", !.slept = @ + retry_delay,
                               !.result = "BLE service busy after retries"]
    /\ UNCHANGED notRequestVars

RequestIdle == request = IdleRequest

RequestNext ==
    \/ \E retries \in RetriesOfCallers : StartRequest(retries)
    \/ \E status \in Statuses : Respond(status)
    \/ ConnectionFails
    \/ RetrySleepEnds

(***************************************************************************)
(* TopicBeaconMixin (commands/topic_beacon.py)                             *)
(*                                                                         *)
(* The beacon of one group.  active is the task of active_topics[group]    *)
(* (0: the group has no entry); a beacon task is unborn, sleeping in       *)
(* asyncio.sleep(), publishing (inside _send_beacon_message()), cancelling *)
(* (cancel() was called and CancelledError has not been thrown into it     *)
(* yet) or done; waiters[t] are the coroutines in `await task`, which the  *)
(* event loop resumes in the order they began to wait.  !topic commands    *)
(* arrive on the two receiving tasks of the command handler.               *)
(***************************************************************************)
BeaconTasks == 1..MaxBeaconTasks

IdleTopicCommand == [pc |-> "idle", kind |-> "", task |-> 0]

IdleBeacon ==
    [active |-> 0,
     task |-> [t \in BeaconTasks |-> "unborn"],
     waiters |-> [t \in BeaconTasks |-> <<>>],
     topic_tasks |-> {},
     cmd |-> [k \in Receivers |-> IdleTopicCommand],
     commands |-> 0,
     cleanup |-> [pc |-> "idle", task |-> 0, remaining |-> {}, found |-> {}],
     published |-> <<>>,
     deleted |-> FALSE]

Unborn(b) == {t \in BeaconTasks : b.task[t] = "unborn"}

Running(b) == {t \in BeaconTasks : b.task[t] \notin {"unborn", "done"}}

\* task.cancel(): CancelledError is thrown into the task when it runs next
cancel_beacon(b, t) ==
    IF b.task[t] \in {"sleeping", "publishing"}
    THEN [b EXCEPT !.task[t] = "cancelling"]
    ELSE b

\* _start_topic_beacon(): create_task(), the entry of active_topics and
\* topic_tasks.add(), without a suspension
start_topic_beacon(b) ==
    LET t == CHOOSE u \in Unborn(b) : \A v \in Unborn(b) : u <= v
    IN  [b EXCEPT !.task[t] = "sleeping", !.active = t,
                  !.topic_tasks = @ \cup {t}, !.deleted = FALSE]

\* _stop_topic_beacon() after `await task`: del self.active_topics[group]
\* removes the entry the group has now; the KeyError of a group without
\* entry is caught
delete_entry(b) == [b EXCEPT !.active = 0]

\* handle_topic() after _stop_topic_beacon(): !topic delete returns "Beacon
\* stopped", !topic GROUP TEXT goes on to _start_topic_beacon()
after_stop(b, kind) ==
    IF kind = "set" THEN start_topic_beacon(delete_entry(b))
    ELSE [delete_entry(b) EXCEPT !.deleted = TRUE]

\* handle_topic() of an admin for the group, up to its return or up to
\* `await task` in _stop_topic_beacon(); !topic delete of a group without
\* entry changes nothing
TopicCommand(k, kind) ==
    /\ beacon.cmd[k].pc = "idle"
    /\ beacon.commands < MaxTopicCommands
    /\ kind = "delete" => beacon.active # 0
    /\ kind = "set" => Unborn(beacon) # {}
    /\ LET b == [beacon EXCEPT !.commands = @ + 1]
           t == b.active
       IN  beacon' =
              IF t = 0 THEN start_topic_beacon(b)
              ELSE IF b.task[t] = "done" THEN after_stop(b, kind)
              ELSE [cancel_beacon(b, t) EXCEPT
                       !.cmd[k] = [pc |-> "stopping", kind |-> kind, task |-> t],
                       !.waiters[t] = Append(@, k)]
    /\ UNCHANGED notBeaconVars

\* `await task` returns in _stop_topic_beacon(), and handle_topic() runs to
\* its end
TopicResume(k) ==
    /\ beacon.cmd[k].pc = "stopping"
    /\ LET t == beacon.cmd[k].task
           kind == beacon.cmd[k].kind
       IN  /\ beacon.task[t] = "done"
           /\ Head(beacon.waiters[t]) = k
           /\ kind = "set" => Unborn(beacon) # {}
           /\ beacon' = after_stop([beacon EXCEPT !.waiters[t] = Tail(@),
                                                  !.cmd[k] = IdleTopicCommand],
                                   kind)
    /\ UNCHANGED notBeaconVars

\* _beacon_loop(): asyncio.sleep() is over; the loop ends when the group
\* has no entry, and publishes the beacon otherwise
BeaconWake(t) ==
    /\ beacon.task[t] = "sleeping"
    /\ IF beacon.active = 0
       THEN beacon' = [beacon EXCEPT !.task[t] = "done", !.topic_tasks = @ \ {t}]
       ELSE /\ Len(beacon.published) < MaxBeaconsSent
            /\ beacon' = [beacon EXCEPT
                             !.task[t] = "publishing",
                             !.published = Append(@,
                                 [task |-> t, recorded |-> beacon.active,
                                  after_delete |-> beacon.deleted,
                                  after_cleanup |-> t \in beacon.cleanup.found
                                                    /\ beacon.cleanup.pc = "done"])]
    /\ UNCHANGED notBeaconVars

\* _send_beacon_message() returns and the loop sleeps again
BeaconPublished(t) ==
    /\ beacon.task[t] = "publishing"
    /\ beacon' = [beacon EXCEPT !.task[t] = "sleeping"]
    /\ UNCHANGED notBeaconVars

\* CancelledError is thrown into the task, which re-raises it; the done
\* callback discards the task from topic_tasks
BeaconCancelled(t) ==
    /\ beacon.task[t] = "cancelling"
    /\ beacon' = [beacon EXCEPT !.task[t] = "done", !.topic_tasks = @ \ {t}]
    /\ UNCHANGED notBeaconVars

\* cleanup_topic_beacons() after its loop over the groups: the tasks of
\* topic_tasks that are not done are cancelled and gathered, and
\* topic_tasks is cleared
cancel_remaining(b) ==
    LET remaining == {t \in b.topic_tasks : b.task[t] # "done"}
    IN  IF remaining = {}
        THEN [b EXCEPT !.topic_tasks = {}, !.cleanup.pc = "done"]
        ELSE [b EXCEPT !.task = [t \in BeaconTasks |->
                                    IF t \in remaining /\ @[t] \in {"sleeping", "publishing"}
                                    THEN "cancelling" ELSE @[t]],
                       !.cleanup.pc = "gathering",
                       !.cleanup.remaining = remaining]

\* cleanup_topic_beacons() up to its first suspension
CleanupStart ==
    /\ beacon.cleanup.pc = "idle"
    /\ LET b == [beacon EXCEPT !.cleanup.found = Running(beacon)]
           t == b.active
       IN  beacon' =
              IF t = 0 THEN cancel_remaining(b)
              ELSE IF b.task[t] = "done" THEN cancel_remaining(delete_entry(b))
              ELSE [cancel_beacon(b, t) EXCEPT
                       !.cleanup.pc = "stopping", !.cleanup.task = t,
                       !.waiters[t] = Append(@, "cleanup")]
    /\ UNCHANGED notBeaconVars

\* `await task` returns in the _stop_topic_beacon() of the cleanup
CleanupResume ==
    /\ beacon.cleanup.pc = "stopping"
    /\ LET t == beacon.cleanup.task
       IN  /\ beacon.task[t] = "done"
           /\ Head(beacon.waiters[t]) = "cleanup"
           /\ beacon' = cancel_remaining(
                            delete_entry([beacon EXCEPT !.waiters[t] = Tail(@)]))
    /\ UNCHANGED notBeaconVars

\* asyncio.gather() of the remaining tasks returns
CleanupGathered ==
    /\ beacon.cleanup.pc = "gathering"
    /\ \A t \in beacon.cleanup.remaining : beacon.task[t] = "done"
    /\ beacon' = [beacon EXCEPT !.topic_tasks = {}, !.cleanup.pc = "done"]
    /\ UNCHANGED notBeaconVars

BeaconIdle == beacon = IdleBeacon

BeaconNext ==
    \/ \E k \in Receivers, kind \in {"set", "delete"} : TopicCommand(k, kind)
    \/ \E k \in Receivers : TopicResume(k)
    \/ \E t \in BeaconTasks : BeaconWake(t)
    \/ \E t \in BeaconTasks : BeaconPublished(t)
    \/ \E t \in BeaconTasks : BeaconCancelled(t)
    \/ CleanupStart
    \/ CleanupResume
    \/ CleanupGathered

(***************************************************************************)
(* The BLE service's notification stream (ble_service/src/main.py)         *)
(*                                                                         *)
(* notification_queue and notification_event are module globals shared by  *)
(* every request of /api/ble/notifications; each request runs its own      *)
(* event_generator() with its own last_sent.  A stream is closed, waiting  *)
(* in notification_event.wait(), or suspended in the yield of a            *)
(* notification; got holds the notifications it has yielded.               *)
(***************************************************************************)
\* the gateway's _sse_loop() and a second or stale request
Streams == {"gateway", "other"}

ClosedStream == [pc |-> "closed", woken |-> FALSE, last_sent |-> 0, got |-> <<>>]

\* int(time.time() * 1000) is positive
IdleNotify ==
    [clock |-> 1, queue |-> <<>>, event |-> FALSE, count |-> 0,
     stream |-> [s \in Streams |-> ClosedStream], expected |-> {}]

\* notification_callback(): the notification is stamped with the current
\* millisecond and queued, and notification_event.set() wakes every
\* generator that waits; elapsed is the time since the notification before
NotificationCallback(elapsed) ==
    /\ notify.count < MaxNotifications
    /\ LET n == [id |-> notify.count + 1, timestamp |-> notify.clock + elapsed]
       IN  notify' = [notify EXCEPT
                         !.clock = n.timestamp,
                         !.count = n.id,
                         !.queue = Append(@, n),
                         !.event = TRUE,
                         !.stream = [s \in Streams |->
                                        IF @[s].pc = "waiting"
                                        THEN [@[s] EXCEPT !.woken = TRUE] ELSE @[s]],
                         !.expected = IF notify.stream["gateway"].pc # "closed"
                                      THEN @ \cup {n.id} ELSE @]
    /\ UNCHANGED notNotifyVars

\* the loop `while notification_queue` of event_generator() up to its next
\* yield: notifications are popped, and one whose timestamp is not above
\* last_sent is dropped; sent is 0 when the queue ran empty
RECURSIVE send_queued(_, _)
send_queued(queue, last_sent) ==
    IF queue = <<>> THEN [queue |-> <<>>, sent |-> 0, last_sent |-> last_sent]
    ELSE IF Head(queue).timestamp > last_sent
    THEN [queue |-> Tail(queue), sent |-> Head(queue).id,
          last_sent |-> Head(queue).timestamp]
    ELSE send_queued(Tail(queue), last_sent)

\* the generator of stream s goes on to its next suspension
generator_runs(nf, s) ==
    LET r == send_queued(nf.queue, nf.stream[s].last_sent)
    IN  [nf EXCEPT !.queue = r.queue,
                   !.stream[s] =
                       IF r.sent = 0
                       THEN [@ EXCEPT !.pc = "waiting", !.woken = FALSE]
                       ELSE [@ EXCEPT !.pc = "yielding", !.woken = FALSE,
                                      !.last_sent = r.last_sent,
                                      !.got = Append(@, r.sent)]]

\* a request of /api/ble/notifications: the generator yields the status
\* event and waits
OpenStream(s) ==
    /\ notify.stream[s].pc = "closed"
    /\ notify' = [notify EXCEPT !.stream[s].pc = "waiting"]
    /\ UNCHANGED notNotifyVars

\* notification_event.wait() returns: the event is cleared and the queue
\* is sent
StreamWake(s) ==
    /\ notify.stream[s].pc = "waiting"
    /\ notify.stream[s].woken \/ notify.event
    /\ notify' = generator_runs([notify EXCEPT !.event = FALSE], s)
    /\ UNCHANGED notNotifyVars

\* the event yielded is written to the client, and the loop goes on
StreamResume(s) ==
    /\ notify.stream[s].pc = "yielding"
    /\ notify' = generator_runs(notify, s)
    /\ UNCHANGED notNotifyVars

NotifyIdle == notify = IdleNotify

\* the radio sends notifications within the same millisecond or a
\* millisecond apart
NotifyNext ==
    \/ \E elapsed \in {0, 1} : NotificationCallback(elapsed)
    \/ \E s \in Streams : OpenStream(s)
    \/ \E s \in Streams : StreamWake(s)
    \/ \E s \in Streams : StreamResume(s)

(***************************************************************************)
(* SQLiteStorage.get_messages_page (sqlite_storage.py)                     *)
(*                                                                         *)
(* rows holds the timestamps of the rows of type 'msg' of one              *)
(* conversation, a row's id being its index; pages are the pages the       *)
(* client has fetched, the newest page first, each a sequence of ids in    *)
(* the order returned; before is the cursor of the next request.           *)
(***************************************************************************)
IdlePaging == [rows |-> <<>>, pages |-> <<>>, before |-> 0, has_more |-> TRUE]

\* WHERE ... AND timestamp < ?
rows_before(rows, before) == {i \in 1..Len(rows) : rows[i] < before}

\* ORDER BY timestamp DESC LIMIT limit + 1, cut to rows[:limit]: the sets of
\* rows a page may hold; rows of the same timestamp come in any order
page_sets(rows, before, limit) ==
    LET found == rows_before(rows, before)
        size == IF Cardinality(found) > limit THEN limit ELSE Cardinality(found)
    IN  {S \in SUBSET found :
            /\ Cardinality(S) = size
            /\ \A i \in S, j \in found \ S : rows[j] <= rows[i]}

\* result.reverse(): the rows of the page, the oldest first
RECURSIVE oldest_first(_, _)
oldest_first(S, rows) ==
    IF S = {} THEN <<>>
    ELSE LET i == CHOOSE x \in S :
                      \A y \in S : rows[x] < rows[y] \/ (rows[x] = rows[y] /\ x <= y)
         IN  <<i>> \o oldest_first(S \ {i}, rows)

\* len(rows) > limit
has_more(rows, before, limit) == Cardinality(rows_before(rows, before)) > limit

\* store_message() inserts a message of the conversation, before the
\* client begins to page
AddMessage(timestamp) ==
    /\ paging.pages = <<>>
    /\ Len(paging.rows) < MaxConversation
    /\ paging' = [paging EXCEPT !.rows = Append(@, timestamp)]
    /\ UNCHANGED notPagingVars

\* the client's first request has no `before`: before_timestamp is the
\* current time, later than every row
FirstPage ==
    /\ paging.pages = <<>>
    /\ paging.rows # <<>>
    /\ \E S \in page_sets(paging.rows, MaxPageTime + 1, PageLimit) :
          paging' = [paging EXCEPT
                        !.pages = <<oldest_first(S, paging.rows)>>,
                        !.before = paging.rows[oldest_first(S, paging.rows)[1]],
                        !.has_more = has_more(paging.rows, MaxPageTime + 1, PageLimit)]
    /\ UNCHANGED notPagingVars

\* while has_more is true the client asks for the page before the oldest
\* timestamp of the page it got
NextPage ==
    /\ paging.pages # <<>>
    /\ paging.has_more
    /\ \E S \in page_sets(paging.rows, paging.before, PageLimit) :
          paging' = [paging EXCEPT
                        !.pages = <<oldest_first(S, paging.rows)>> \o @,
                        !.before = IF S = {} THEN @
                                   ELSE paging.rows[oldest_first(S, paging.rows)[1]],
                        !.has_more = has_more(paging.rows, paging.before, PageLimit)]
    /\ UNCHANGED notPagingVars

PagingIdle == paging = IdlePaging

PagingNext ==
    \/ \E timestamp \in 1..MaxPageTime : AddMessage(timestamp)
    \/ FirstPage
    \/ NextPage

(***************************************************************************)
(* EventBus of the update runner (scripts/update-runner.py)                *)
(*                                                                         *)
(* The runner's thread publishes, and the threads of the HTTP server       *)
(* subscribe, read their queue and unsubscribe.  lock is the holder of     *)
(* self._lock; an event is its number in publish order; queue[c] is the    *)
(* queue.Queue() of subscriber c and received[c] what its handler has      *)
(* taken from it.                                                          *)
(***************************************************************************)
Subscribers == {"s1", "s2"}

IdleEventBus ==
    [lock |-> "", history |-> <<>>, clients |-> {},
     pc |-> [c \in Subscribers |-> "none"],
     queue |-> [c \in Subscribers |-> <<>>],
     received |-> [c \in Subscribers |-> <<>>],
     joined |-> [c \in Subscribers |-> 0]]

lock_free_always(eb) == TRUE

\* `with self._lock`: the block is entered when no thread holds the lock
lock_free(eb) == eb.lock = ""

\* publish(): under the lock the payload is appended to the history and put
\* into the queue of every client; the queues are unbounded
Publish ==
    /\ lock_free(event_bus)
    /\ Len(event_bus.history) < MaxEvents
    /\ LET payload == Len(event_bus.history) + 1
       IN  event_bus' = [event_bus EXCEPT
                            !.history = Append(@, payload),
                            !.queue = [c \in Subscribers |->
                                          IF c \in event_bus.clients
                                          THEN Append(@[c], payload) ELSE @[c]]]
    /\ UNCHANGED notEventBusVars

\* subscribe() takes the lock and puts the history into the new queue
SubscribeBegin(c) ==
    /\ event_bus.pc[c] = "none"
    /\ lock_free(event_bus)
    /\ event_bus' = [event_bus EXCEPT !.lock = c, !.pc[c] = "replayed",
                                      !.queue[c] = event_bus.history,
                                      !.joined[c] = Len(event_bus.history)]
    /\ UNCHANGED notEventBusVars

\* subscribe() appends the queue to the clients and releases the lock
SubscribeEnd(c) ==
    /\ event_bus.pc[c] = "replayed"
    /\ event_bus' = [event_bus EXCEPT !.lock = IF @ = c THEN "" ELSE @,
                                      !.pc[c] = "subscribed",
                                      !.clients = @ \cup {c}]
    /\ UNCHANGED notEventBusVars

\* _handle_stream(): q.get() gives the handler the next event
GetEvent(c) ==
    /\ event_bus.pc[c] = "subscribed"
    /\ event_bus.queue[c] # <<>>
    /\ event_bus' = [event_bus EXCEPT !.queue[c] = Tail(@),
                                      !.received[c] = Append(@, Head(event_bus.queue[c]))]
    /\ UNCHANGED notEventBusVars

\* the client is gone and the handler calls unsubscribe()
Unsubscribe(c) ==
    /\ event_bus.pc[c] = "subscribed"
    /\ lock_free(event_bus)
    /\ event_bus' = [event_bus EXCEPT !.pc[c] = "gone", !.clients = @ \ {c}]
    /\ UNCHANGED notEventBusVars

EventBusIdle == event_bus = IdleEventBus

EventBusNext ==
    \/ Publish
    \/ \E c \in Subscribers : SubscribeBegin(c)
    \/ \E c \in Subscribers : SubscribeEnd(c)
    \/ \E c \in Subscribers : GetEvent(c)
    \/ \E c \in Subscribers : Unsubscribe(c)

LastIdle == BeaconIdle /\ NotifyIdle /\ PagingIdle /\ EventBusIdle

LaterIdle == ResponderIdle /\ MigrationIdle /\ StationIdle /\ RequestIdle /\ LastIdle

ServiceIdle == SignalIdle /\ UpdateIdle /\ BleIdle /\ ShutdownIdle /\ SseIdle /\ LaterIdle

(***************************************************************************)
(* Specifications                                                          *)
(***************************************************************************)
RouterInit ==
    /\ RouterIdle /\ RoutingIdle /\ CmdIdle /\ StoreIdle /\ PingIdle
    /\ ServiceIdle
    /\ protocols = {"udp", "ble_client"}

SpecRouter == RouterInit /\ [][RouterNext]_vars

\* BLE mode remote registers 'ble_client'; mode disabled registers none
RoutingInit ==
    /\ RouterIdle /\ RoutingIdle /\ CmdIdle /\ StoreIdle /\ PingIdle
    /\ ServiceIdle
    /\ protocols \in {{"udp", "ble_client"}, {"udp"}}

SpecRouting == RoutingInit /\ [][RoutingNext]_vars

SpecEcho == RoutingInit /\ [][EchoNext]_vars

SpecCmd == RouterInit /\ [][CmdNext]_vars

SpecAbuse == RouterInit /\ [][AbuseNext]_vars

SpecArgs == RouterInit /\ [][ArgsNext]_vars

SpecSynth == RouterInit /\ [][SynthNext]_vars

SpecIdless == RouterInit /\ [][IdlessNext]_vars

SpecStore == RouterInit /\ [][StoreNext]_vars

SpecAck == RouterInit /\ [][AckNext]_vars

SpecPing == RouterInit /\ [][PingNext]_vars

SpecPingFail == RouterInit /\ [][FailingPingNext]_vars

SpecPingLong == RouterInit /\ [][LongPingNext]_vars

SpecSignal == RouterInit /\ [][SignalNext]_vars

UpdateInit ==
    /\ RouterIdle /\ RoutingIdle /\ CmdIdle /\ StoreIdle /\ PingIdle
    /\ SignalIdle /\ UpdateLayout /\ BleIdle /\ ShutdownIdle /\ SseIdle /\ LaterIdle
    /\ protocols = {"udp", "ble_client"}

SpecUpdate == UpdateInit /\ [][UpdateNext]_vars

SpecShutdown == RouterInit /\ [][ShutdownNext]_vars

SpecStop == RouterInit /\ [][StopNext]_vars

SpecSse == RouterInit /\ [][SseNext]_vars

SpecResponse == RouterInit /\ [][ResponseNext]_vars

\* everything but the subsystems of one variable at rest
CoreIdle ==
    /\ RouterIdle /\ RoutingIdle /\ CmdIdle /\ StoreIdle /\ PingIdle
    /\ SignalIdle /\ UpdateIdle /\ BleIdle /\ ShutdownIdle /\ SseIdle
    /\ protocols = {"udp", "ble_client"}

\* the database is new or was left by an installation of version 1 to 4
MigrationInit ==
    /\ CoreIdle
    /\ ResponderIdle /\ StationIdle /\ RequestIdle /\ LastIdle
    /\ \E v \in 0..4 : migration = DownProcess(LegacyDb(v))

SpecMigration == MigrationInit /\ [][MigrationNext]_vars

SpecStation == RouterInit /\ [][StationNext]_vars

SpecBeacon == RouterInit /\ [][BeaconNext]_vars

SpecNotify == RouterInit /\ [][NotifyNext]_vars

SpecPaging == RouterInit /\ [][PagingNext]_vars

SpecEventBus == RouterInit /\ [][EventBusNext]_vars

SpecRequest == RouterInit /\ [][RequestNext]_vars

SpecReply == RoutingInit /\ [][ReplyNext]_vars

SpecBle == RouterInit /\ [][BleNext]_vars

\* the reconnect task is scheduled whenever it can run, its sleeps and its
\* connect calls end, and a radio out of reach comes back
SpecBleLive ==
    /\ SpecBle
    /\ WF_vars(LadderBegin)
    /\ WF_vars(LadderWake)
    /\ WF_vars(LadderConnected)
    /\ WF_vars(RadioBack)

Spec == SpecRouter

(***************************************************************************)
(* Properties of subscribe / publish                                       *)
(***************************************************************************)
\* the subscribers of a topic in the order in which subscribe() was called
RegistrationOrder(t) ==
    LET done == SubSeq(Registrations, 1, regpc)
        OnTopic(r) == r.topic = t
        mine == SelectSeq(done, OnTopic)
    IN  InitSubscribers[t] \o [i \in 1..Len(mine) |-> mine[i].handler]

\* C1: an exception raised by one subscriber handler does not prevent the
\* delivery of the same message to every other subscriber of the topic:
\* a handler that raises leaves the loop running, and at the step in which
\* publish() returns every subscriber of the topic has been called.
C1_HandlerFailureIsolated ==
    [][\A p \in Publishers :
          /\ (pub[p].pc = "loop" /\ pub'[p].raised # pub[p].raised)
                => pub'[p].pc = "loop"
          /\ (pub[p].pc = "loop" /\ pub'[p].pc = "returned")
                => pub'[p].delivered = subscribers'[pub'[p].topic]]_vars

\* a publish has returned although a handler that was not the last one raised
C1_Witness ==
    \E p \in Publishers :
        /\ pub[p].pc = "returned"
        /\ \E i \in pub[p].raised : i < Len(pub[p].delivered)

\* C2: for each publish call the subscribers receive the event one at a time
\* in the order in which they were registered, and publish does not return
\* while a handler is still running.
C2_SerialInOrder ==
    /\ \A t \in Topics : subscribers[t] = RegistrationOrder(t)
    /\ \A p \in Publishers :
          /\ IsPrefix(pub[p].delivered, subscribers[pub[p].topic])
          /\ Cardinality(pub[p].running) <= 1
          /\ pub[p].pc = "returned" => pub[p].running = {}
          /\ pub[p].running \subseteq {Len(pub[p].delivered)}

\* a publish on a topic with three subscribers has returned
C2_Witness ==
    \E p \in Publishers :
        /\ pub[p].pc = "returned"
        /\ pub[p].delivered =
              <<"_storage_handler", "_message_handler", "_broadcast_handler">>

(***************************************************************************)
(* Properties of outbound routing                                          *)
(***************************************************************************)
\* an outbound handler has run on a message a client sent
Routed == ob.topic \in {"udp_message", "ble_message"} /\ ob.pc \in {"routed", "decided"}

\* the handler's work is over: nothing reached the command handler, or the
\* command handler has taken its decision
Settled == Routed /\ (ob.inbox = <<>> \/ ob.pc = "decided")

\* the transport the topic's handler sends with is registered
TransportRegistered ==
    IF ob.topic = "udp_message" THEN "udp" \in protocols ELSE "ble_client" \in protocols

\* an outbound command of mine whose target is some other callsign
MyCommandForOther ==
    /\ ob.out.norm.src = MyCallsign
    /\ is_command(ob.out.norm.msg)
    /\ extract_target_callsign(ob.out.norm.msg) \notin {<<>>, MyCallsign}

HandedToMesh == ob.out.sent # <<>>

ExecutedLocally == ob.pc = "decided" /\ ob.decision.execute

\* C3 as stated: an outbound command from my callsign whose target is some
\* other callsign is handed to the mesh transport and is not executed
\* locally, for any destination.
C3_AsStated ==
    (Settled /\ TransportRegistered /\ MyCommandForOther)
        => (HandedToMesh /\ ~ExecutedLocally)

\* C3: an outbound command from my callsign whose target is some other
\* callsign is handed to the mesh transport and never reaches the command
\* handler when its destination is valid and is not my own callsign; with
\* my own callsign as destination it is neither transmitted nor executed;
\* with an invalid destination it is not transmitted, and it is executed
\* locally exactly when the destination is '*', 'ALL' or empty.
C3_RemoteIntent ==
    (Settled /\ TransportRegistered /\ MyCommandForOther) =>
        IF ~is_valid_destination(ob.out.norm.dst)
        THEN /\ ~HandedToMesh
             /\ ExecutedLocally <=> ob.out.norm.dst \in {Tok_STAR, Tok_ALL, <<>>}
        ELSE IF ob.out.norm.dst = MyCallsign
        THEN ~HandedToMesh /\ ~ExecutedLocally
        ELSE /\ ob.out.sent = <<[via |-> IF ob.topic = "udp_message" THEN "udp" ELSE "ble",
                                 data |-> ob.out.norm]>>
             /\ ob.inbox = <<>>

\* a command for another station sent to a group has gone to the transport
C3_Witness ==
    /\ Settled /\ TransportRegistered /\ MyCommandForOther
    /\ is_group(ob.out.norm.dst)
    /\ HandedToMesh

\* C4: for every outbound command whose source and destination are my
\* callsign, with no target or with my callsign as target, the suppression
\* oracle returns true.
C4_SelfCommandSuppressed ==
    ( /\ Routed
      /\ ob.out.norm.src = MyCallsign
      /\ ob.out.norm.dst = MyCallsign
      /\ is_command(ob.out.norm.msg)
      /\ extract_target_callsign(ob.out.norm.msg) \in {<<>>, MyCallsign} )
        => ob.out.suppress

\* a command to myself that names me as its target was suppressed
C4_Witness ==
    /\ Routed
    /\ ob.out.norm.src = MyCallsign
    /\ ob.out.norm.dst = MyCallsign
    /\ extract_target_callsign(ob.out.norm.msg) = MyCallsign
    /\ ob.out.suppress

\* C5 as stated: for every outbound command from my callsign whose target is
\* a callsign other than mine the oracle returns false, whatever the
\* destination is.
C5_AsStated == (Routed /\ MyCommandForOther) => ~ob.out.suppress

\* C5: for every outbound command from my callsign whose target is a
\* callsign other than mine the oracle returns false when the destination
\* is valid, and true when it is not.
C5_RemoteTargetNotSuppressed ==
    (Routed /\ MyCommandForOther)
        => (ob.out.suppress <=> ~is_valid_destination(ob.out.norm.dst))

\* a command for another station addressed to my own callsign passed the
\* oracle unsuppressed
C5_Witness ==
    /\ Routed /\ MyCommandForOther
    /\ ob.out.norm.dst = MyCallsign
    /\ ~ob.out.suppress

\* C6: when the oracle suppresses an outbound message, the message is not
\* passed to the UDP or BLE transport, and one synthesized record carrying
\* the generated id and the message's fields is delivered to the command
\* handler.
C6_SuppressedIsDiverted ==
    (Routed /\ ob.out.suppress) =>
        /\ ob.out.sent = <<>>
        /\ Len(ob.inbox) = 1
        /\ ob.inbox[1].msg_id = RoutingTime
        /\ ob.inbox[1].type = "msg"
        /\ ob.inbox[1].src = ob.out.norm.src
        /\ ob.inbox[1].dst = ob.out.norm.dst
        /\ ob.inbox[1].msg = ob.out.norm.msg

\* a suppressed command to a group is with the command handler while both
\* transports are registered
C6_Witness ==
    /\ Routed /\ ob.out.suppress
    /\ is_group(ob.out.norm.dst)
    /\ protocols = {"udp", "ble_client"}
    /\ ob.inbox # <<>>

(***************************************************************************)
(* Properties of the reception decision                                    *)
(***************************************************************************)
\* the command handler has decided on a command received from another station
ForeignDecided ==
    /\ ob.pc = "decided"
    /\ ob.topic = "mesh_message"
    /\ is_command(ob.data.msg)
    /\ normalize_command_data(ob.data).src # MyCallsign

\* C8: a command whose source is not my callsign is executed if and only if
\* (a) its destination is my callsign and its target is absent or my
\* callsign, or (b) its destination is a group, its target is my callsign,
\* and group responses are on or the source is the admin; the response goes
\* to the source in case (a) and to the group in case (b).
C8_ForeignCommandDecision ==
    ForeignDecided =>
        LET n == normalize_command_data(ob.data)
            target == routing_extract_target_callsign(n.msg)
            a == n.dst = MyCallsign /\ target \in {<<>>, MyCallsign}
            b == /\ is_group(n.dst)
                 /\ target = MyCallsign
                 /\ (group_responses_enabled \/ is_admin(n.src))
        IN  /\ ob.decision.execute <=> (a \/ b)
            /\ a => ob.reply_to = n.src
            /\ b => ob.reply_to = n.dst

\* a group command naming me was executed for a non-admin while group
\* responses were on
C8_Witness ==
    /\ ForeignDecided
    /\ is_group(normalize_command_data(ob.data).dst)
    /\ ~is_admin(normalize_command_data(ob.data).src)
    /\ group_responses_enabled
    /\ ob.decision.execute

\* a command of my callsign was handed to a transport
Transmitted ==
    /\ ob.out.sent # <<>>
    /\ ob.out.norm.src = MyCallsign
    /\ is_command(ob.out.norm.msg)

\* C31: a command from my callsign that was handed to a transport is not
\* executed locally: it is not routed to the command handler, and the
\* command handler does not execute the packet the radio echoes back, with
\* or without the tail of the echo.
C31_TransmittedNotExecuted ==
    Transmitted
    => /\ ob.out.toCmd = <<>>
       /\ ob.pc = "decided" => ~ob.decision.execute

\* the echo of a transmitted command, tail included, was decided on
C31_Witness ==
    /\ Transmitted
    /\ ob.pc = "decided"
    /\ is_echo_message(ob.inbox[1].msg)
    /\ is_group(ob.out.norm.dst)

(***************************************************************************)
(* Properties of the msg_id dedup of commands                              *)
(***************************************************************************)
\* C7: within any 5-minute window at most one delivery of a command carrying
\* a given message id is executed, also when a delivery arrives while the
\* first one is still being executed: two executions of the same id lie at
\* least msg_id_timeout seconds apart.
C7_OneExecutionPerId ==
    \A e1 \in outcomes, e2 \in outcomes :
        ( /\ e1.what = "executed" /\ e2.what = "executed"
          /\ e1.msg_id = e2.msg_id
          /\ e1 # e2 )
            => (e1.at - e2.at >= msg_id_timeout \/ e2.at - e1.at >= msg_id_timeout)

\* the command word of a delivery on record
CommandOf(o) == (CHOOSE p \in Packets \cup AbusePackets : p.msg_id = o.msg_id).cmd

\* the throttle window of a command, in seconds
ThrottleWindow(cmd) ==
    IF cmd \in DOMAIN COMMAND_THROTTLING THEN COMMAND_THROTTLING[cmd]
    ELSE DEFAULT_THROTTLE_TIMEOUT

\* C13: two executions of the same content (all deliveries have the same
\* source and destination) are more than the command's throttle window
\* apart, and a delivery is refused as throttled only within the window
\* after an execution of the same content was started or has returned.
C13_ThrottleWindow ==
    /\ \A e1, e2 \in outcomes :
          (/\ e1.what = "executed" /\ e2.what = "executed" /\ e1 # e2
           /\ CommandOf(e1) = CommandOf(e2)
           /\ e1.at <= e2.at)
          => e2.at - e1.at > ThrottleWindow(CommandOf(e1))
    /\ \A o \in outcomes :
          o.what = "throttled"
          => \E e \in outcomes :
                /\ e.what \in {"executed", "returned"}
                /\ CommandOf(e) = CommandOf(o)
                /\ e.at <= o.at
                /\ o.at - e.at <= ThrottleWindow(CommandOf(e))

\* the times at which a source's third failed attempt within 5 minutes
\* happened
ThirdFailures ==
    LET failures == {o \in outcomes : o.what = "failed"}
        upto(f) == {g \in failures :
                       g.at <= f.at /\ f.at - g.at < failed_attempt_window}
    IN  {f.at : f \in {f \in failures : Cardinality(upto(f)) >= max_failed_attempts}}

\* the 25 minutes after a third failed attempt
AbuseFlagged == \E t \in ThirdFailures : t <= now /\ now - t <= block_duration

Executions == {o \in outcomes : o.what = "executed"}

\* C12: after three failed attempts of a source within 5 minutes the source
\* is in blocked_users, and during the following 25 minutes no delivery of
\* that source starts an execution.
C12_BlockedAfterThreeFailures ==
    [][/\ AbuseFlagged' => OtherCallsign \in DOMAIN blocked_users'
       /\ AbuseFlagged => Executions' = Executions]_vars

\* three attempts failed at the same time, and five minutes later, when the
\* msg_id cache and the throttle have let go, a delivery was refused
C12_Witness ==
    /\ AbuseFlagged
    /\ \E o \in outcomes : /\ o.what = "blocked"
                            /\ \E t \in ThirdFailures : o.at > t

\* the failed attempts the tally holds for a requester
AttemptsOf(src) ==
    IF src \in DOMAIN failed_attempts THEN failed_attempts[src] ELSE <<>>

\* C27: when the handler of a command rejects its arguments, the response
\* sent to the requester is a short error text, and the rejection is among
\* the failed attempts of the requester as long as it is inside the window
\* of the tally.
C27_RejectionCounted ==
    \A o \in outcomes :
        IsErrorReply(o.what)
        => /\ Len(o.what) <= MAX_RESPONSE_LENGTH
           /\ \/ o.at <= now - failed_attempt_window
              \/ \E i \in 1..Len(AttemptsOf(OtherCallsign)) :
                    AttemptsOf(OtherCallsign)[i] = o.at

\* C32: two different diverted commands are both executed, also within one
\* second: the command handler drops a record as a duplicate msg_id only if
\* it has executed the same command under that id before.
C32_DistinctBothExecuted ==
    \A o \in outcomes :
        o.what = "dropped"
        => \E e \in outcomes :
              /\ e.what = "executed"
              /\ e.msg_id = o.msg_id
              /\ e.cmd = o.cmd

\* C33: a command in a record without msg_id is never dropped by the
\* msg_id deduplication.
C33_IdlessNeverDropped ==
    \A o \in outcomes : o.msg_id = NoMsgId => o.what # "dropped"

(***************************************************************************)
(* Properties of the stored messages                                       *)
(***************************************************************************)
\* C10: at most one row with a given non-null msg_id exists in table
\* messages within any 20-minute window, also when the same message is
\* stored concurrently from the UDP and the BLE path: two rows of the same
\* msg_id lie at least DEDUP_WINDOW_MS apart.
C10_OneRowPerMsgId ==
    \A i \in 1..Len(messages), j \in 1..Len(messages) :
        ( /\ i < j
          /\ messages[i].msg_id # "NULL"
          /\ messages[i].msg_id = messages[j].msg_id )
            => \/ messages[i].timestamp - messages[j].timestamp >= DEDUP_WINDOW_MS
               \/ messages[j].timestamp - messages[i].timestamp >= DEDUP_WINDOW_MS

\* C11: of the MHeard beacons of one callsign (rows of type 'pos' without
\* msg_id), no two rows of table messages lie within one 2-minute throttle
\* window, whatever the order of the beacons' timestamps.
C11_OneRowPerBeaconWindow ==
    \A i, j \in 1..Len(messages) :
        (/\ i < j
         /\ messages[i].type = "pos" /\ messages[j].type = "pos"
         /\ messages[i].msg_id = "NULL" /\ messages[j].msg_id = "NULL"
         /\ messages[i].src = messages[j].src)
        => \/ messages[i].timestamp - messages[j].timestamp >= throttle_ms
           \/ messages[j].timestamp - messages[i].timestamp >= throttle_ms

\* the rows a store_message() call has changed
ChangedRows == {i \in 1..Len(messages) : messages'[i] # messages[i]}

\* the original messages of an ack_id, and the most recent of them
Originals(ack_id) ==
    {i \in 1..Len(messages) : messages[i].type = "msg" /\ messages[i].msg_id = ack_id}

MostRecent(ack_id) ==
    {i \in Originals(ack_id) :
        \A j \in Originals(ack_id) : messages[j].timestamp <= messages[i].timestamp}

\* C36: storing a record of type ack inserts no row; it sets send_success
\* to 1 on one most recent original message of the ack's id, when there is
\* one, and changes no other row and no other column.
C36_AckMarksOriginal ==
    [][\A k \in Receivers, ack_id \in AckIds :
          StoreAck(k, ack_id)
          => /\ Len(messages') = Len(messages)
             /\ Cardinality(ChangedRows) <= 1
             /\ \A i \in ChangedRows :
                   /\ i \in MostRecent(ack_id)
                   /\ messages'[i] = [messages[i] EXCEPT !.send_success = 1]
             /\ Originals(ack_id) # {}
                   => \E i \in MostRecent(ack_id) : messages'[i].send_success = 1]_vars

\* of two messages stored with the same msg_id the later one is marked and
\* the earlier one is not
C36_Witness ==
    \E i, j \in 1..Len(messages) :
        /\ messages[i].msg_id = messages[j].msg_id
        /\ messages[i].timestamp < messages[j].timestamp
        /\ messages[i].send_success = 0
        /\ messages[j].send_success = 1

(***************************************************************************)
(* Properties of the signal buckets                                        *)
(***************************************************************************)
RECURSIVE SumOver(_, _)
SumOver(f, keys) ==
    IF keys = {} THEN 0
    ELSE LET k == CHOOSE x \in keys : TRUE
         IN  f[k] + SumOver(f, keys \ {k})

SumOfCounts(f) == SumOver(f, DOMAIN f)

\* C14: whenever no write to signal_buckets is in flight, the counts of the
\* rows of signal_buckets plus the samples held by the accumulators add up
\* to the number of accepted samples.
C14_SampleConservation ==
    (flushing.pc = "idle" /\ flush_all.pc = "idle")
    => SumOfCounts(signal_buckets) + SumOfCounts(bucket_accumulators) = accepted

(***************************************************************************)
(* Properties of the update runner                                         *)
(***************************************************************************)
\* the update has swapped current to its target and has ended without success
FailedAfterSwap ==
    /\ runner.pc = "done"
    /\ runner.swapped
    /\ runner.result # "success"

C16_TargetNeverActive ==
    runner.pc \in {"bootstrap", "activate"}
    => /\ (\E i \in Slots : is_empty_slot(slot_meta[i]))
          => is_empty_slot(slot_meta[runner.target_slot])
       /\ (\A i \in Slots : ~is_empty_slot(slot_meta[i]))
          => \A j \in Slots \ {runner.active_slot} :
                slot_meta[runner.target_slot].deployed_at <= slot_meta[j].deployed_at
       /\ runner.target_slot # runner.active_slot

(***************************************************************************)
(* Properties of the BLE auto-reconnect                                    *)
(***************************************************************************)
\* C17: a link lost by an unexpected disconnect is connected again (or the
\* user asks for the disconnect) once the radio is reachable again.
C17_EventuallyReconnected ==
    (link = "lost" /\ ~user_disconnected) ~> (is_connected \/ user_disconnected)

\* the attempts of one run of the reconnect task follow the delays in order
FollowsDelays ==
    \A i \in 1..Len(connect_calls) :
        /\ connect_calls[i].attempt \in 1..Len(delays)
        /\ connect_calls[i].delay = delays[connect_calls[i].attempt]
        /\ connect_calls[i].attempt > 1
           => (i > 1 /\ connect_calls[i - 1].attempt = connect_calls[i].attempt - 1)

\* every attempt connects with a bus handle that was not in use before
FreshBus ==
    \A i \in 1..Len(connect_calls) :
        /\ connect_calls[i].bus # 0
        /\ connect_calls[i].bus # connect_calls[i].stale_bus
        /\ \A j \in 1..(i - 1) : connect_calls[j].bus # connect_calls[i].bus

\* C18: the reconnect task connects after waits of 5, 10, 20 and 60 seconds,
\* each time with a fresh bus handle, and from the request of the user to
\* disconnect until the user connects again it starts no attempt and
\* completes none, wherever the request found the task.
C18_LadderStopsOnUserDisconnect ==
    /\ []FollowsDelays
    /\ []FreshBus
    /\ [][user_disconnected =>
            /\ connect_calls' = connect_calls
            /\ reconnect_task'.pc # "connecting"
            /\ is_connected' => user_disconnected' = FALSE]_vars

C18_Witness ==
    /\ user_disconnected
    /\ reconnect_task.cancelled_at = "connecting"
    /\ Len(connect_calls) >= 2
    /\ connect_calls[1].stale_bus # 0
    /\ connect_calls[Len(connect_calls)].delay = delays[2]

(***************************************************************************)
(* Properties of the shutdown                                              *)
(***************************************************************************)
\* the sum of the four timeouts
ShutdownBound ==
    step_timeout.beacons + step_timeout.ble + step_timeout.udp + step_timeout.sse

\* the steps attempted so far are the first steps of the sequence, each
\* within its timeout
StepsInOrder ==
    /\ Len(attempted) <= Len(ShutdownSteps)
    /\ \A n \in 1..Len(attempted) :
          /\ attempted[n].step = ShutdownSteps[n]
          /\ attempted[n].took <= step_timeout[attempted[n].step]

\* C19: once the stop event is set the process exits within the sum of the
\* timeouts: the four steps are attempted in order, each within its timeout
\* and whatever the outcome of the steps before it; a further signal less
\* than 5 s after the first is ignored, a later one forces the exit.
C19_BoundedShutdown ==
    /\ StepsInOrder
    /\ (proc.stop_set /\ proc.pc \notin {"serving", "forced"} /\ ~InStep)
       => Len(attempted) = Len(ShutdownSteps)
    /\ (proc.stop_set /\ monotonic - proc.stop_time > ShutdownBound) => Exited
    /\ \A n \in 2..Len(signals) :
          signals[n].effect = IF signals[n].at - signals[1].at < duplicate_window
                              THEN "ignored" ELSE "force"

(***************************************************************************)
(* Properties of send_response()                                           *)
(***************************************************************************)
\* C21: a response is sent as at most three chunks, every message sent is
\* at most 140 bytes of UTF-8 with its (i/N) prefix, and consecutive
\* messages of a response are at least 12 seconds apart.
C21_ChunkLimits ==
    /\ Len(responder.published) <= MAX_CHUNKS
    /\ \A k \in 1..Len(responder.published) :
          /\ utf8_len(responder.published[k].msg) <= MAX_RESPONSE_LENGTH
          /\ k > 1 => responder.published[k].at >= responder.published[k - 1].at + chunk_delay

\* the command that is being answered is from my callsign to my callsign
SelfCommand ==
    /\ responder.pc # "idle"
    /\ ob.pc = "decided"
    /\ normalize_command_data(ob.inbox[1]).src = MyCallsign
    /\ normalize_command_data(ob.inbox[1]).dst = MyCallsign

NotOnTransports ==
    /\ ob.out.sent = <<>>
    /\ \A k \in 1..Len(responder.published) :
          responder.published[k].topic \notin {"udp_message", "ble_message"}

\* C22, as stated: the response to a command from my callsign to my
\* callsign goes to my callsign on the topic websocket_direct, and nothing
\* goes to udp_message or ble_message.
C22_AsStated ==
    SelfCommand
    => /\ NotOnTransports
       /\ \A k \in 1..Len(responder.published) :
             /\ responder.published[k].dst = MyCallsign
             /\ responder.published[k].topic = "websocket_direct"

\* C22, amended: the response to a command from my callsign to my callsign
\* goes to my callsign on the broadcast topic websocket_message, every
\* chunk of it, and nothing goes to udp_message or ble_message.
C22_SelfResponse ==
    SelfCommand
    => /\ NotOnTransports
       /\ responder.pc = "returned" => Len(responder.published) = Len(responder.chunks)
       /\ \A k \in 1..Len(responder.published) :
             /\ responder.published[k].dst = MyCallsign
             /\ responder.published[k].topic = "websocket_message"

C22_Witness ==
    /\ SelfCommand
    /\ ob.topic = "ble_message"
    /\ responder.pc = "returned"
    /\ Len(responder.published) = 2

(***************************************************************************)
(* Properties of the schema migration                                      *)
(***************************************************************************)
\* step k is fully applied to the database
Applied(db, k) ==
    /\ StepFacts[k] \subseteq db.facts
    /\ k = 2 => db.columns # {}
    /\ k = 3 => db.messages = "v3" /\ ~db.messages_new
    /\ k = 5 => db.columns = {"lon", "lon_dir"}

\* C23: whenever the process may crash, and after any restart, the
\* persisted schema version is not ahead of the steps fully applied (no
\* step is skipped), and no start fails on what an earlier start applied.
C23_ResumesAfterCrash ==
    /\ \A k \in 2..migration.db.version : Applied(migration.db, k)
    /\ migration.pc # "failed"

(***************************************************************************)
(* Properties of the station position upsert                               *)
(***************************************************************************)
\* C24: after any sequence of position beacons the stored location and
\* position timestamp are those of a beacon with the newest timestamp.
C24_NewestBeaconWins ==
    station.beacons # <<>>
    => \E i \in 1..Len(station.beacons) :
          /\ \A j \in 1..Len(station.beacons) :
                station.beacons[j].timestamp <= station.beacons[i].timestamp
          /\ station.row.position_ts = station.beacons[i].timestamp
          /\ station.row.location = station.beacons[i].location

\* C25: when the process has exited through the shutdown path, every open
\* accumulator has been written to signal_buckets.
C25_FlushedBeforeExit ==
    proc.pc = "exited"
    => \A k \in DOMAIN bucket_accumulators :
          /\ k \in DOMAIN signal_buckets
          /\ signal_buckets[k] = bucket_accumulators[k]

(***************************************************************************)
(* Properties of the requests to the BLE service                           *)
(***************************************************************************)
\* the service answered every request of the call with 409
PersistentBusy == request.busy > 0 /\ request.busy = request.sent

\* C28 as stated: a call that met a busy service retried exactly once,
\* 1.5 seconds after the first answer, and raised when the retry was also
\* answered with 409.
C28_AsStated ==
    (request.pc = "raised" /\ PersistentBusy)
    => /\ request.sent = 2
       /\ request.slept = retry_delay

\* C28: a call sends at most 1 + retries requests, each retry 1.5 seconds
\* after the answer before it; a call whose every request was answered
\* with 409 has sent all 1 + retries requests and has raised the API error
\* of the 409 to its caller, without another delay.
C28_RetriesUpToLimit ==
    /\ request.sent <= 1 + request.retries
    /\ request.pc \in {"sent", "returned", "raised"}
          => request.slept = retry_delay * (request.sent - 1)
    /\ (request.pc # "sleeping" /\ PersistentBusy)
          => /\ request.pc = "raised"
             /\ request.sent = 1 + request.retries
             /\ request.result = "API error (409)"

C28_Witness ==
    /\ request.pc = "raised"
    /\ PersistentBusy
    /\ request.retries = 2
    /\ request.sent = 3
    /\ request.slept = 2 * retry_delay

(***************************************************************************)
(* Properties of the beacon scheduler                                      *)
(***************************************************************************)
\* C34: after !topic delete GROUP has returned (and until a beacon is
\* started again) every beacon task of the group is done, and no beacon was
\* published for the group in that time; a task that cleanup_topic_beacons()
\* found running has published nothing after the cleanup was complete.
C34_DeleteStopsTask ==
    /\ beacon.deleted => Running(beacon) = {}
    /\ \A i \in 1..Len(beacon.published) :
          /\ ~beacon.published[i].after_delete
          /\ ~beacon.published[i].after_cleanup

\* C35: every beacon of the group is published by the task that
\* active_topics records for the group at that time, so that no two tasks
\* are sending beacons for it.
C35_OneSenderRecorded ==
    \A i \in 1..Len(beacon.published) :
        beacon.published[i].task = beacon.published[i].recorded

\* every task cleanup_topic_beacons() found running is done when it is
\* complete
CleanupStopsTasks ==
    beacon.cleanup.pc = "done"
    => \A t \in beacon.cleanup.found : beacon.task[t] = "done"

(***************************************************************************)
(* Properties of the notification stream of the BLE service                *)
(***************************************************************************)
\* how often the gateway's stream has yielded notification n
TimesDelivered(n) ==
    Cardinality({i \in 1..Len(notify.stream["gateway"].got) :
                    notify.stream["gateway"].got[i] = n})

\* the queue is empty and the gateway's generator waits for the next
\* notification
StreamQuiet ==
    /\ notify.queue = <<>>
    /\ notify.stream["gateway"].pc = "waiting"

\* C38: once the queue is sent, every notification received while the
\* gateway's stream was connected has been delivered to that stream exactly
\* once, whatever the timestamps and whatever other stream is open.
C38_DeliveredOnce ==
    /\ \A n \in 1..notify.count : TimesDelivered(n) <= 1
    /\ StreamQuiet => \A n \in notify.expected : TimesDelivered(n) = 1

\* the same for notifications of different milliseconds while no other
\* stream is open
DeliveredOnceAlone ==
    ( /\ StreamQuiet
      /\ notify.stream["other"].pc = "closed"
      /\ notify.clock = IdleNotify.clock + notify.count )
    => \A n \in notify.expected : TimesDelivered(n) = 1

(***************************************************************************)
(* Properties of the paging of a conversation                              *)
(***************************************************************************)
RECURSIVE Concat(_)
Concat(pages) == IF pages = <<>> THEN <<>> ELSE Head(pages) \o Concat(Tail(pages))

\* the messages the client holds, the oldest page first
Paged == Concat(paging.pages)

\* the client has paged back to the end
PagedToEnd == paging.pages # <<>> /\ ~paging.has_more

\* C39: the pages hold no message twice and are in non-decreasing timestamp
\* order, and when has_more is false they hold every message of the
\* conversation.
C39_EveryMessageOnce ==
    /\ \A i, j \in 1..Len(Paged) : i < j => Paged[i] # Paged[j]
    /\ \A i, j \in 1..Len(Paged) :
          i < j => paging.rows[Paged[i]] <= paging.rows[Paged[j]]
    /\ PagedToEnd
          => \A r \in 1..Len(paging.rows) : \E i \in 1..Len(Paged) : Paged[i] = r

\* the same for a conversation without two messages of the same timestamp
EveryMessageOnceDistinct ==
    (\A i, j \in 1..Len(paging.rows) : i # j => paging.rows[i] # paging.rows[j])
    => C39_EveryMessageOnce

(***************************************************************************)
(* Properties of the update runner's event bus                             *)
(***************************************************************************)
\* the events subscriber c has taken and those waiting in its queue
Delivered(c) == event_bus.received[c] \o event_bus.queue[c]

\* C40: the events a subscriber has received and those in its queue are,
\* in this order, the events published so far, each once and in publish
\* order, from the moment subscribe() has returned until it unsubscribes;
\* what a handler has taken is always a prefix of the publish order.
C40_EveryEventOnceInOrder ==
    \A c \in Subscribers :
        /\ event_bus.pc[c] = "subscribed" => Delivered(c) = event_bus.history
        /\ Len(event_bus.received[c]) <= Len(event_bus.history)
        /\ event_bus.received[c] = SubSeq(event_bus.history, 1, Len(event_bus.received[c]))

\* a subscriber that joined after the first event has taken that event
\* from the replay and a later one from a publish
C40_Witness ==
    \E c \in Subscribers :
        /\ event_bus.pc[c] = "subscribed"
        /\ event_bus.joined[c] >= 1
        /\ Len(event_bus.history) > event_bus.joined[c]
        /\ event_bus.received[c] = event_bus.history

(***************************************************************************)
(* Properties of the SSE endpoint                                          *)
(***************************************************************************)
IsInitialFrame(f) == \E n \in 1..Len(InitialOrder) : f.frame = InitialOrder[n]

OrderOf(f) == CHOOSE n \in 1..Len(InitialOrder) : f.frame = InitialOrder[n]

IsEvent(f) == f.frame = "event"

HasReceived(name) == \E i \in 1..Len(received) : received[i].frame = name

\* the broadcast events among the frames received, in the order received
ReceivedEvents == SelectSeq(received, IsEvent)

\* C20, as stated: a client that has reached the queue loop has received
\* every one of the initial frames.
C20_AsStated ==
    sse_client.pc \in {"live", "gone"}
    => \A n \in 1..Len(InitialOrder) : HasReceived(InitialOrder[n])

\* C20, amended: the first frame is the connected frame; the initial frames
\* received are in the stated order, a frame without data being left out
\* and all later ones when loading fails; no initial frame follows a
\* broadcast event or a ping; the events received and the events queued
\* are the events broadcast since the client registered, in that order.
C20_InitialThenFifo ==
    /\ received # <<>> => received[1].frame = "connected"
    /\ \A i, j \in 1..Len(received) :
          (i < j /\ IsInitialFrame(received[j]))
          => /\ IsInitialFrame(received[i])
             /\ OrderOf(received[i]) <= OrderOf(received[j])
             /\ OrderOf(received[i]) = OrderOf(received[j])
                => received[j].frame = "ble_register"
    /\ LET all == ReceivedEvents \o sse_client.queue
       IN  \A i \in 1..Len(all) :
              /\ i > 1 => all[i].event = all[i - 1].event + 1
              /\ (i = Len(all) /\ sse_client.connected) => all[i].event = broadcasts

C20_Witness ==
    /\ Len(ReceivedEvents) >= 2
    /\ ReceivedEvents[1].queued_in = "initial"
    /\ ReceivedEvents[2].queued_in = "live"
    /\ HasReceived("ble_register")
    /\ HasReceived("read_counts")
    /\ ~HasReceived("blocked_texts")

(***************************************************************************)
(* Properties of the ping test                                             *)
(***************************************************************************)
\* C9: for every ping test of K repeats exactly one summary message is
\* emitted, whatever the interleaving of echoes, duplicate ACKs, per-ping
\* timeouts and the test monitor: never more than one, and one by the time
\* the test has left ping_tests.
C9_ExactlyOneSummary ==
    /\ emitted.summaries <= 1
    /\ (test_summary.status = "completed" /\ TestId \notin ping_tests)
          => emitted.summaries = 1

\* the test starts at time 0 and sends ping i after i - 1 sleeps
SentAt(i) == (i - 1) * PingInterval

\* ping i has a result, a success or a timeout
Resolved(i) == \E r \in test_summary.results : r.sequence = i

\* C26: every started ping test terminates: each ping that was sent has
\* a result, an ACK or a timeout, once 30 seconds have passed since it was
\* sent, also when the radio never echoes it, and the test has left
\* ping_tests once 5 minutes have passed since it started.
C26_TerminatesInTime ==
    /\ \A i \in radio.sent : now > SentAt(i) + ping_timeout => Resolved(i)
    /\ TestId \in ping_tests => now <= MonitorMaxWait

\* the statuses that end a test
FinalStatus == {"completed", "timeout", "error"}

\* C29: the status of a ping test only moves forward along running,
\* completing, final (completed, timeout or error): a final status is never
\* replaced by another status, and while _complete_test() has set
\* completing and waits for the monitor, only _complete_test() itself sets
\* the final status.
C29_StatusOrder ==
    [][LET old == test_summary.status
           new == test_summary'.status
       IN  /\ old \in FinalStatus => new = old
           /\ old = "completing"
                 => \/ new = old
                    \/ /\ new \in FinalStatus
                       /\ complete_task = "await_monitor"
                       /\ complete_task' # "await_monitor"
           /\ old = "running" => new \in {"running", "completing"} \cup FinalStatus]_vars

C29_Witness ==
    /\ test_summary.status = "completed"
    /\ monitor.pc = "cancelled"
    /\ complete_task = "sending_summary"

\* C30: each ping of a test is counted once: no ping has both a success
\* and a timeout among the results of the test, and completed + timeouts
\* never exceeds total_pings, also when the timeout of a ping fires while
\* the handler of its ACK is suspended in its send.
C30_CountedOnce ==
    /\ \A r1, r2 \in test_summary.results : r1.sequence = r2.sequence => r1 = r2
    /\ test_summary.completed + test_summary.timeouts <= test_summary.total_pings

\* C37: when the monitor of a ping test has failed, the test has the status
\* error and a summary has been emitted for it.
C37_MonitorFailureReported ==
    monitor.pc = "failed"
    => /\ test_summary.status = "error"
       /\ emitted.summaries >= 1

\* no ping test ever has the status error
NeverError == test_summary.status # "error"

=============================================================================
